---- MODULE Spec2Model ----
(***************************************************************************)
(* A model of three parts of dflow:                                        *)
(*   - the local debug scheduler of a DAG      (src/src/dflow/dag.py),      *)
(*   - the auto-naming IO containers           (src/src/dflow/io.py),       *)
(*   - the reflective status tree, its parameters and steps                *)
(*                                             (src/src/dflow/argo_objects.py). *)
(* Each part has its own specification; the variables of the other parts   *)
(* stay at their idle values.                                              *)
(***************************************************************************)
EXTENDS Integers, Sequences, FiniteSets, TLC

VARIABLES
    \* ---- dag.py: DAG and its Task objects
    tasks,              \* DAG.tasks: the sequence of Task objects
    dependencies,       \* Task.dependencies, per task of the DAG
    continue_on_failed, \* Task.continue_on_failed, per task of the DAG
    phase,              \* Task.phase, per task (the orchestrator's objects)
    outputs,            \* Task.outputs, per task (the orchestrator's objects)
    waiting,            \* DAG.waiting
    running,            \* DAG.running
    finished,           \* DAG.finished
    futures,            \* the dict futures of DAG.run, in insertion order:
                        \* one entry per pending future, holding its index i
    pc,                 \* where DAG.run is: "new", "loop", "done", "raised", "cyclic"
    last,               \* the completion DAG.run handled last: <<j, outcome>>
    \* ---- io.py: one Inputs (or Outputs) object and the objects around it
    objects,            \* the parameter/artifact objects built so far, by identity
    parameters,         \* Inputs.parameters: the AutonamedDict's data, key -> object
    artifacts,          \* Inputs.artifacts: the AutonamedDict's data, key -> object
    assigned,           \* the item assignment made last: <<attribute, key, object>>
    \* ---- argo_objects.py: a reflective tree and the caller's references into it
    heap,               \* the ArgoObjectDict/ArgoObjectList objects, by identity
    root,               \* the object the caller built from the parsed document
    child,              \* what the caller obtained from root, step by step
    childPath,          \* the steps by which child was obtained from root
    written,            \* the attribute assignment made last through child
    \* ---- argo_objects.py: one ArgoStep, its node document and the object store
    status,             \* the outputs block of the node-status document
    argo_step,          \* ArgoStep.outputs after handle_io: parameters and artifacts by name
    store,              \* the object store: the text stored under each key
    encoded,            \* per stored text, the value it is the encoding of (where known)
    repo_type,          \* s3_config["repo_type"]
    modified,           \* the modify_output_parameter call made last on this step
    reading,            \* the attribute of a parameter read last, and what came of it
    \* ---- argo_objects.py: the output artifacts of the ArgoStep
    mode,               \* config["mode"]
    uploaded,           \* the list upload_artifact was given last
    artifact_call,      \* the call made last on an output artifact, and what came of it
    \* ---- argo_objects.py: get_pod_name
    pod_args,           \* the arguments of get_pod_name
    pod_name,           \* what the last call of get_pod_name returned
    pod_name_before,    \* what the call before it returned
    \* ---- ArgoWorkflow.get_step
    workflow,           \* the workflow: whether its status has nodes, and the nodes
    get_step_call,      \* the outcome of the last call of get_step
    \* ---- DAG.add and DAG.copy
    task_objs,          \* the Task objects: satellite steps and template of each
    templates,          \* the number of template objects there are
    dag_objs,           \* the DAG objects: name, tasks, and the tasks given to add
    \* ---- the pod of a step: get_pod, get_script, set_script, replay
    pod,                \* self.pod: not loaded, or the resource version and ARGO_TEMPLATE of the containers
    cluster,            \* the pod the API server holds
    api_calls,          \* the API calls of the last operation, with the stamp self.pod had
    pod_call,           \* the last operation and its outcome
    script_set          \* the script set last on the pod that is loaded

dagVars == <<tasks, dependencies, continue_on_failed, phase, outputs,
             waiting, running, finished, futures, pc, last>>

ioVars == <<objects, parameters, artifacts, assigned>>

treeVars == <<heap, root, child, childPath, written>>

parVars == <<status, argo_step, store, encoded, repo_type, modified, reading>>

artVars == <<mode, uploaded, artifact_call>>

nameVars == <<pod_args, pod_name, pod_name_before>>

wfVars == <<workflow, get_step_call>>

buildVars == <<task_objs, templates, dag_objs>>

podVars == <<pod, cluster, api_calls, pod_call, script_set>>

vars == <<dagVars, ioVars, treeVars, parVars, artVars, nameVars, wfVars, buildVars, podVars>>

\* what each part leaves alone
outsideDag == <<ioVars, treeVars, parVars, artVars, nameVars, wfVars, buildVars, podVars>>
outsideIO == <<dagVars, treeVars, parVars, artVars, nameVars, wfVars, buildVars, podVars>>
outsideTree == <<dagVars, ioVars, parVars, artVars, nameVars, wfVars, buildVars, podVars>>
outsidePar == <<dagVars, ioVars, treeVars, artVars, nameVars, wfVars, buildVars, podVars>>
outsideArt == <<dagVars, ioVars, treeVars, status, store, encoded, modified, reading, nameVars, wfVars, buildVars, podVars>>
outsideName == <<dagVars, ioVars, treeVars, parVars, artVars, wfVars, buildVars, podVars>>
outsideWf == <<dagVars, ioVars, treeVars, parVars, artVars, nameVars, buildVars, podVars>>
outsideBuild == <<dagVars, ioVars, treeVars, parVars, artVars, nameVars, wfVars, podVars>>
outsidePod == <<dagVars, ioVars, treeVars, parVars, artVars, nameVars, wfVars, buildVars>>

(***************************************************************************)
(* Bounds                                                                  *)
(***************************************************************************)
MaxTasks == 3
MaxDeps == 3
MaxObjects == 4
MaxDepth == 3
MaxWrites == 2
MaxNesting == 2
MaxStored == 2
MaxSlices == 3
MaxOrder == 2
MaxNameLength == 250
MaxNodes == 2
MaxTime == 2
MaxMain == 2
MaxEntries == 4
MaxDags == 2

(***************************************************************************)
(* Helpers on Python lists                                                 *)
(***************************************************************************)
Range(s) == {s[i] : i \in DOMAIN s}

Contains(s, x) == \E i \in DOMAIN s : s[i] = x

\* list.index(x): the first position holding x (0 when there is none).
IndexOf(s, x) ==
    IF Contains(s, x) THEN CHOOSE i \in DOMAIN s : s[i] = x /\ \A k \in 1..(i - 1) : s[k] # x
    ELSE 0

\* the list without its position k
RemoveAt(s, k) == [i \in 1..(Len(s) - 1) |-> IF i < k THEN s[i] ELSE s[i + 1]]

\* list.remove(x): the list without the first occurrence of x
ListRemove(s, x) == IF Contains(s, x) THEN RemoveAt(s, IndexOf(s, x)) ELSE s

(***************************************************************************)
(* dag.py: the DAG and the local debug scheduler                           *)
(***************************************************************************)
\* The Task objects a caller may have built; those in DAG.tasks and those a
\* dependency list may name without their being added to the DAG.
TaskObjects == 1..MaxTasks

\* A Task as constructed (the constructor is not part of src/).
InitialPhase == "Waiting"

DeclaredOutputs(task) == <<"declared", task>>

\* What the worker's copy of the task holds as outputs when run_with_config returns.
WorkerOutputs(task) == <<"result", task>>

\* The dependency lists a caller can give the tasks of a DAG of n tasks: at
\* most MaxDeps dependencies overall, on any Task object (itself included).
DependencyChoices(n) ==
    LET edges == {e \in SUBSET ((1..n) \X TaskObjects) : Cardinality(e) <= MaxDeps}
    IN {[t \in 1..n |-> {d \in TaskObjects : <<t, d>> \in e}] : e \in edges}

\* DAG.__init__ followed by DAG.add of n distinct tasks without satellite steps.
InitDag ==
    \E n \in 1..MaxTasks :
        /\ tasks = [i \in 1..n |-> i]
        /\ dependencies \in DependencyChoices(n)
        /\ continue_on_failed \in [1..n -> BOOLEAN]
        /\ phase = [t \in 1..n |-> InitialPhase]
        /\ outputs = [t \in 1..n |-> DeclaredOutputs(t)]
        /\ waiting = <<>>
        /\ running = <<>>
        /\ finished = <<>>
        /\ futures = <<>>
        /\ pc = "new"
        /\ last = <<0, "none">>

\* A resolve that admits a task as soon as one of its dependencies is finished.
ReadyWhenAnyFinished(task, fin) ==
    dependencies[task] = {} \/ \E dep \in dependencies[task] : Contains(fin, dep)

\* A resolve that admits only the tasks without dependencies.
ReadyRoots(task, fin) == dependencies[task] = {}

\* resolve, lines 116-120: every dependency of the task is in finished.
Ready(task, fin) == \A dep \in dependencies[task] : Contains(fin, dep)

\* A resolve that marks every task of the DAG Pending when it submits one.
DispatchAll(st, task) ==
    [waiting |-> ListRemove(st.waiting, task),
     running |-> Append(st.running, task),
     phase   |-> [t \in DOMAIN st.phase |-> "Pending"],
     futures |-> Append(st.futures, IndexOf(tasks, task))]

\* A resolve that submits the task and leaves it in waiting.
DispatchKept(st, task) ==
    [waiting |-> st.waiting,
     running |-> Append(st.running, task),
     phase   |-> [st.phase EXCEPT ![task] = "Pending"],
     futures |-> Append(st.futures, IndexOf(tasks, task))]

\* resolve, lines 121-128: the task is submitted to the pool.
Dispatch(st, task) ==
    [waiting |-> ListRemove(st.waiting, task),
     running |-> Append(st.running, task),
     phase   |-> [st.phase EXCEPT ![task] = "Pending"],
     futures |-> Append(st.futures, IndexOf(tasks, task))]

\* resolve: the for loop over self.waiting. The list iterator keeps a position;
\* self.waiting.remove(task) inside the loop shifts the rest of the list left,
\* and the iterator then moves on to position i + 1 of the shortened list.
RECURSIVE ResolveFrom(_, _, _)
ResolveFrom(i, st, fin) ==
    IF i > Len(st.waiting) THEN st
    ELSE LET task == st.waiting[i]
         IN IF Ready(task, fin)
            THEN ResolveFrom(i + 1, Dispatch(st, task), fin)
            ELSE ResolveFrom(i + 1, st, fin)

Resolve(st, fin) == ResolveFrom(1, st, fin)

\* DAG.run, lines 131-141: up to the first resolve.
Run ==
    /\ pc = "new"
    /\ LET st == Resolve([waiting |-> tasks, running |-> <<>>,
                          phase |-> phase, futures |-> <<>>], <<>>)
       IN /\ waiting' = st.waiting
          /\ running' = st.running
          /\ phase' = st.phase
          /\ futures' = st.futures
    /\ finished' = <<>>
    /\ pc' = "loop"
    /\ UNCHANGED <<tasks, dependencies, continue_on_failed, outputs, last>>
    /\ UNCHANGED outsideDag

\* A run that treats every task as tolerant.
RaisesNever(task) == FALSE

\* DAG.run, line 152: a failed task that does not tolerate failure raises.
Raises(task) == ~continue_on_failed[task]

\* DAG.run, lines 156-158: the task leaves running, joins finished, and resolve
\* admits what is ready. rest is the dict futures after the pop of line 145.
Retire(j, ph, rest) ==
    /\ finished' = Append(finished, tasks[j])
    /\ LET st == Resolve([waiting |-> waiting,
                          running |-> ListRemove(running, tasks[j]),
                          phase |-> ph,
                          futures |-> rest], Append(finished, tasks[j]))
       IN /\ waiting' = st.waiting
          /\ running' = st.running
          /\ phase' = st.phase
          /\ futures' = st.futures

\* DAG.run, lines 143-147, 154-158: the future at position k of the dict is the
\* next one as_completed yields, and its result() returns the worker's task.
CompleteReturned(k) ==
    /\ pc = "loop"
    /\ Len(running) > 0
    /\ k \in DOMAIN futures
    /\ LET j == futures[k]
       IN /\ outputs' = [outputs EXCEPT ![tasks[j]] = WorkerOutputs(tasks[j])]
          /\ Retire(j, phase, RemoveAt(futures, k))
          /\ last' = <<j, "returned">>
    /\ pc' = "loop"
    /\ UNCHANGED <<tasks, dependencies, continue_on_failed>>
    /\ UNCHANGED outsideDag

\* DAG.run, lines 143-153, 156-158: the future's result() raises.
CompleteFailed(k) ==
    /\ pc = "loop"
    /\ Len(running) > 0
    /\ k \in DOMAIN futures
    /\ LET j  == futures[k]
           ph == [phase EXCEPT ![tasks[j]] = "Failed"]
       IN /\ last' = <<j, "exception">>
          /\ IF Raises(tasks[j])
             THEN /\ pc' = "raised"
                  /\ phase' = ph
                  /\ futures' = RemoveAt(futures, k)
                  /\ UNCHANGED <<waiting, running, finished>>
             ELSE /\ pc' = "loop"
                  /\ Retire(j, ph, RemoveAt(futures, k))
    /\ UNCHANGED <<tasks, dependencies, continue_on_failed, outputs>>
    /\ UNCHANGED outsideDag

\* A run without the final assertion.
AssertSkipped == TRUE

\* DAG.run, line 161: the assertion after the loop.
AllFinished == Len(finished) = Len(tasks)

\* DAG.run, lines 143, 160-161: the loop ends when running is empty.
Return ==
    /\ pc = "loop"
    /\ Len(running) = 0
    /\ pc' = IF AllFinished THEN "done" ELSE "cyclic"
    /\ UNCHANGED <<tasks, dependencies, continue_on_failed, phase, outputs,
                   waiting, running, finished, futures, last>>
    /\ UNCHANGED outsideDag

NextDag ==
    \/ Run
    \/ \E k \in 1..MaxTasks : CompleteReturned(k)
    \/ \E k \in 1..MaxTasks : CompleteFailed(k)
    \/ Return


(***************************************************************************)
(* io.py: Inputs/Outputs and AutonamedDict                                 *)
(***************************************************************************)
\* The keys item assignments use, and the names a caller gives its objects
\* ("None": the constructors' default name).
IOKeys == {"x", "y"}

IONames == IOKeys \cup {"None"}

IOAttributes == {"parameters", "artifacts"}

EmptyDict == [k \in {} |-> 0]

\* The same assignment without the deepcopy: the assigned object itself is
\* renamed and stored.
SetItemNoCopy(st, key, value) ==
    [objects |-> [st.objects EXCEPT ![value].name = key],
     data    |-> [k \in DOMAIN st.data \cup {key} |->
                     IF k = key THEN value ELSE st.data[k]]]

\* AutonamedDict.__setitem__, lines 17-20: a deep copy of the value is named
\* after the key and stored under it. st holds the objects and the dict's data.
SetItem(st, key, value) ==
    LET copy == Len(st.objects) + 1
    IN [objects |-> Append(st.objects, [st.objects[value] EXCEPT !.name = key]),
        data    |-> [k \in DOMAIN st.data \cup {key} |->
                        IF k = key THEN copy ELSE st.data[k]]]

\* AutonamedDict(d) for a plain dict d, line 36 or 64: UserDict.__init__ fills
\* the new dict with one item assignment per key of d.
RECURSIVE UpdateFrom(_, _, _)
UpdateFrom(st, d, keys) ==
    IF keys = {} THEN st
    ELSE LET key == CHOOSE k \in keys : TRUE
         IN UpdateFrom(SetItem(st, key, d[key]), d, keys \ {key})

AutonamedDict(objs, d) == UpdateFrom([objects |-> objs, data |-> EmptyDict], d, DOMAIN d)

\* The plain dicts a caller can build from the objects it has.
PlainDicts == UNION {[ks -> 1..Len(objects)] : ks \in SUBSET IOKeys}

\* Inputs.__init__, lines 23-32, without arguments.
InitIO ==
    /\ objects = <<>>
    /\ parameters = EmptyDict
    /\ artifacts = EmptyDict
    /\ assigned = <<"none", "none", 0>>

\* The caller builds a parameter or an artifact with the name it likes
\* (InputParameter.__init__, lines 79-83, and the like).
NewObject(name) ==
    /\ Len(objects) < MaxObjects
    /\ objects' = Append(objects, [name |-> name])
    /\ UNCHANGED <<parameters, artifacts, assigned>>
    /\ UNCHANGED outsideIO

\* inputs.parameters[key] = value, for any object the caller can reach, the
\* entries of the dicts included.
SetParameter(key, value) ==
    /\ Len(objects) < MaxObjects
    /\ value \in 1..Len(objects)
    /\ LET st == SetItem([objects |-> objects, data |-> parameters], key, value)
       IN /\ objects' = st.objects
          /\ parameters' = st.data
    /\ assigned' = <<"parameters", key, value>>
    /\ UNCHANGED artifacts
    /\ UNCHANGED outsideIO

\* inputs.artifacts[key] = value
SetArtifact(key, value) ==
    /\ Len(objects) < MaxObjects
    /\ value \in 1..Len(objects)
    /\ LET st == SetItem([objects |-> objects, data |-> artifacts], key, value)
       IN /\ objects' = st.objects
          /\ artifacts' = st.data
    /\ assigned' = <<"artifacts", key, value>>
    /\ UNCHANGED parameters
    /\ UNCHANGED outsideIO

\* Inputs.__setattr__, lines 34-36, with a plain dict (also what __init__ does
\* with a dict argument, lines 24-25 and 29-30).
SetAttrDict(attribute, d) ==
    /\ d \in PlainDicts
    /\ Len(objects) + Cardinality(DOMAIN d) <= MaxObjects
    /\ LET st == AutonamedDict(objects, d)
       IN /\ objects' = st.objects
          /\ IF attribute = "parameters"
             THEN parameters' = st.data /\ UNCHANGED artifacts
             ELSE artifacts' = st.data /\ UNCHANGED parameters
    /\ assigned' = <<attribute, "dict", 0>>
    /\ UNCHANGED outsideIO

NextIO ==
    \/ \E name \in IONames : NewObject(name)
    \/ \E key \in IOKeys, value \in 1..MaxObjects : SetParameter(key, value)
    \/ \E key \in IOKeys, value \in 1..MaxObjects : SetArtifact(key, value)
    \/ \E attribute \in IOAttributes, d \in PlainDicts : SetAttrDict(attribute, d)

(***************************************************************************)
(* argo_objects.py: ArgoObjectDict and ArgoObjectList                      *)
(***************************************************************************)
\* Python values, tagged: plain ints, dicts and lists as json/yaml parsing
\* yields them, references to wrapper objects, the dict or list a wrapper keeps
\* in its attribute data, and bound methods.
IntVal(n) == [t |-> "int", v |-> n]
PlainDict(f) == [t |-> "dict", v |-> f]
PlainList(q) == [t |-> "list", v |-> q]
Ref(id) == [t |-> "ref", v |-> id]
Storage(id) == [t |-> "storage", v |-> id]
Method(name) == [t |-> "method", v |-> name]

Ok(val) == [ok |-> TRUE, val |-> val]
Err(name) == [ok |-> FALSE, val |-> [t |-> "error", v |-> name]]

\* Field names of the documents: an ordinary one, the name of the attribute in
\* which UserDict and UserList keep their content, and the name of a method of
\* both wrapper classes.
TreeKeys == {"a", "data", "recover"}

\* Names that normal attribute lookup finds on the class, so that __getattr__
\* is not called for them: the methods of lines 50 and 65.
ClassAttributes == {"recover"}

\* The parsed documents of nesting depth at most d.
RECURSIVE PlainValues(_)
PlainValues(d) ==
    IF d = 0 THEN {IntVal(1)}
    ELSE LET below == PlainValues(d - 1)
         IN below
            \cup {PlainDict([k \in {key} |-> value]) : key \in TreeKeys, value \in below}
            \cup {PlainList(<<value>>) : value \in below}

Documents == {doc \in PlainValues(MaxDepth) : doc.t = "dict"}

\* ArgoObjectDict.__init__, lines 26-32, and ArgoObjectList.__init__, lines
\* 57-63: the new object takes a copy of the items, then every plain dict or
\* list among them is replaced by a wrapper built from it.
RECURSIVE WrapDict(_, _), WrapList(_, _), WrapItems(_, _, _)
WrapItems(h, id, keys) ==
    IF keys = {} THEN h
    ELSE LET key == CHOOSE k \in keys : TRUE
             value == h[id].data.v[key]
         IN IF value.t = "dict"
            THEN LET r == WrapDict(h, value)
                 IN WrapItems([r.heap EXCEPT ![id].data.v[key] = Ref(r.id)], id, keys \ {key})
            ELSE IF value.t = "list"
            THEN LET r == WrapList(h, value)
                 IN WrapItems([r.heap EXCEPT ![id].data.v[key] = Ref(r.id)], id, keys \ {key})
            ELSE WrapItems(h, id, keys \ {key})

WrapDict(h, d) ==
    LET id == Len(h) + 1
        h1 == Append(h, [kind |-> "dict", data |-> PlainDict(d.v), attrs |-> <<>>])
    IN [heap |-> WrapItems(h1, id, DOMAIN d.v), id |-> id]

WrapList(h, li) ==
    LET id == Len(h) + 1
        h1 == Append(h, [kind |-> "list", data |-> PlainList(li.v), attrs |-> <<>>])
    IN [heap |-> WrapItems(h1, id, DOMAIN li.v), id |-> id]

\* x.key for a value x. For a wrapper, Python first looks the name up on the
\* object and its class: data (the instance attribute set by UserDict and
\* UserList) and the methods are found there. Only then does
\* ArgoObjectDict.__getattr__, lines 34-42, look the key up in self.data.
GetAttr(h, x, key) ==
    IF x.t # "ref" THEN Err("AttributeError")
    ELSE LET node == h[x.v]
         IN IF key = "data"
            THEN Ok(IF node.data.t \in {"dict", "list"} THEN Storage(x.v) ELSE node.data)
            ELSE IF key \in ClassAttributes THEN Ok(Method(key))
            ELSE IF node.kind = "list"
            THEN IF key \in DOMAIN node.attrs THEN Ok(node.attrs[key])
                 ELSE Err("AttributeError")
            ELSE IF node.data.t # "dict" THEN Err("TypeError")
            ELSE IF key \in DOMAIN node.data.v THEN Ok(node.data.v[key])
            ELSE Err("AttributeError")

\* x[i] for an ArgoObjectList (UserList.__getitem__) or for the plain list it
\* keeps in data.
GetItem(h, x, i) ==
    IF x.t \notin {"ref", "storage"} THEN Err("TypeError")
    ELSE LET node == h[x.v]
         IN IF node.kind # "list" \/ node.data.t # "list" THEN Err("TypeError")
            ELSE IF i \in DOMAIN node.data.v THEN Ok(node.data.v[i])
            ELSE Err("IndexError")

\* x.key = value. ArgoObjectDict.__setattr__, lines 44-48; an ArgoObjectList
\* has no __setattr__ of its own and gets an instance attribute; plain dicts,
\* lists, ints and bound methods take no attributes.
SetAttr(h, x, key, value) ==
    IF x.t # "ref" THEN [ok |-> FALSE, heap |-> h]
    ELSE LET node == h[x.v]
         IN IF key = "data" THEN [ok |-> TRUE, heap |-> [h EXCEPT ![x.v].data = value]]
            ELSE IF node.kind = "list"
            THEN [ok |-> TRUE,
                  heap |-> [h EXCEPT ![x.v].attrs =
                               [k \in DOMAIN node.attrs \cup {key} |->
                                   IF k = key THEN value ELSE node.attrs[k]]]]
            ELSE IF node.data.t # "dict" THEN [ok |-> FALSE, heap |-> h]
            ELSE [ok |-> TRUE,
                  heap |-> [h EXCEPT ![x.v].data.v =
                               [k \in DOMAIN node.data.v \cup {key} |->
                                   IF k = key THEN value ELSE node.data.v[k]]]]

\* A step of a path: attribute access or indexing.
AttrStep(key) == [a |-> "attr", k |-> key]
ItemStep(i) == [a |-> "item", k |-> i]

Access(h, x, step) ==
    IF step.a = "attr" THEN GetAttr(h, x, step.k) ELSE GetItem(h, x, step.k)

\* Reading root.<path> as the caller does, step by step.
RECURSIVE ReadFrom(_, _, _)
ReadFrom(h, x, path) ==
    IF path = <<>> THEN Ok(x)
    ELSE LET r == Access(h, x, Head(path))
         IN IF r.ok THEN ReadFrom(h, r.val, Tail(path)) ELSE r

\* ArgoObjectDict(doc) for a parsed document; the caller holds the result.
InitTree ==
    \E doc \in Documents :
        LET r == WrapDict(<<>>, doc)
        IN /\ heap = r.heap
           /\ root = r.id
           /\ child = Ref(r.id)
           /\ childPath = <<>>
           /\ written = <<>>

\* child = child.<key>, where that is an object
ObtainAttr(key) ==
    /\ LET r == GetAttr(heap, child, key)
       IN /\ r.ok
          /\ r.val.t \in {"ref", "storage"}
          /\ child' = r.val
    /\ childPath' = Append(childPath, AttrStep(key))
    /\ UNCHANGED <<heap, root, written>>
    /\ UNCHANGED outsideTree

\* child = child[i], where that is an object
ObtainItem(i) ==
    /\ LET r == GetItem(heap, child, i)
       IN /\ r.ok
          /\ r.val.t \in {"ref", "storage"}
          /\ child' = r.val
    /\ childPath' = Append(childPath, ItemStep(i))
    /\ UNCHANGED <<heap, root, written>>
    /\ UNCHANGED outsideTree

\* child.<key> = value; an exception leaves the tree as it was.
Assign(key, value) ==
    /\ Len(written) < MaxWrites
    /\ LET r == SetAttr(heap, child, key, value)
       IN /\ heap' = r.heap
          /\ written' = Append(written, [path |-> childPath, key |-> key,
                                         value |-> value, ok |-> r.ok])
    /\ UNCHANGED <<root, child, childPath>>
    /\ UNCHANGED outsideTree

\* the caller starts again from root
Release ==
    /\ childPath # <<>>
    /\ child' = Ref(root)
    /\ childPath' = <<>>
    /\ UNCHANGED <<heap, root, written>>
    /\ UNCHANGED outsideTree

\* the values a caller assigns: an int, a plain mapping, a plain sequence
Assigned == {IntVal(2), PlainDict([a |-> IntVal(1)]), PlainList(<<IntVal(1)>>)}

NextTree ==
    \/ \E key \in TreeKeys : ObtainAttr(key)
    \/ \E i \in 1..1 : ObtainItem(i)
    \/ \E key \in TreeKeys, value \in Assigned : Assign(key, value)
    \/ Release

(***************************************************************************)
(* jsonpickle as argo_objects.py and io.py use it                          *)
(***************************************************************************)
\* More Python values: strings (a text is a sequence of tokens), dicts with
\* keys of any kind (a sequence of key/value pairs, in insertion order), None
\* and True.
Str(text) == [t |-> "str", v |-> text]
Mapping(pairs) == [t |-> "map", v |-> pairs]
Pair(key, value) == [k |-> key, v |-> value]
Tuple(q) == [t |-> "tuple", v |-> q]
NoneVal == [t |-> "none", v |-> 0]
TrueVal == [t |-> "bool", v |-> TRUE]

\* the key under which jsonpickle writes a tuple, and by which it finds one
TupleTag == Str(<<"py/tuple">>)

Digits == 0..9

Quoted(text) == <<"\"">> \o text \o <<"\"">>

\* A dict key in JSON: jsonpickle (keys=False) turns a key that is no string
\* into the string of it.
KeyText(key) == IF key.t = "str" THEN Quoted(key.v) ELSE Quoted(<<ToString(key.v)>>)

\* jsonpickle.dumps(x): the JSON text of x.
RECURSIVE Dumps(_), DumpsElems(_), DumpsPairs(_)
Dumps(x) ==
    CASE x.t = "int"  -> <<ToString(x.v)>>
      [] x.t = "str"  -> Quoted(x.v)
      [] x.t = "list" -> <<"[">> \o DumpsElems(x.v) \o <<"]">>
      [] x.t = "map"  -> <<"{">> \o DumpsPairs(x.v) \o <<"}">>
      [] x.t = "tuple" -> <<"{">> \o KeyText(TupleTag) \o <<":", "[">>
                          \o DumpsElems(x.v) \o <<"]", "}">>
      [] x.t = "none" -> <<"null">>
      [] x.t = "bool" -> <<IF x.v THEN "true" ELSE "false">>

DumpsElems(q) ==
    IF q = <<>> THEN <<>>
    ELSE IF Len(q) = 1 THEN Dumps(q[1])
    ELSE Dumps(q[1]) \o <<",">> \o DumpsElems(Tail(q))

DumpsPairs(q) ==
    IF q = <<>> THEN <<>>
    ELSE LET first == KeyText(q[1].k) \o <<":">> \o Dumps(q[1].v)
         IN IF Len(q) = 1 THEN first ELSE first \o <<",">> \o DumpsPairs(Tail(q))

\* d[key] = value on a dict
PutPair(pairs, key, value) ==
    IF \E i \in DOMAIN pairs : pairs[i].k = key
    THEN [i \in DOMAIN pairs |-> IF pairs[i].k = key THEN Pair(key, value) ELSE pairs[i]]
    ELSE Append(pairs, Pair(key, value))

HasKey(x, key) == x.t = "map" /\ \E i \in DOMAIN x.v : x.v[i].k = key

Lookup(x, key) == x.v[CHOOSE i \in DOMAIN x.v : x.v[i].k = key].v

Parsed(val, next) == [ok |-> TRUE, val |-> val, next |-> next]
NotParsed == [ok |-> FALSE, val |-> NoneVal, next |-> 0]

At(text, i, token) == i <= Len(text) /\ text[i] = token

\* jsonpickle.loads(text): the value of a JSON text, read from position i on.
RECURSIVE ParseValue(_, _), ParseElems(_, _, _), ParsePairs(_, _, _)
ParseValue(text, i) ==
    IF i > Len(text) THEN NotParsed
    ELSE IF \E n \in Digits : text[i] = ToString(n)
    THEN Parsed(IntVal(CHOOSE n \in Digits : text[i] = ToString(n)), i + 1)
    ELSE IF text[i] = "null" THEN Parsed(NoneVal, i + 1)
    ELSE IF text[i] = "true" THEN Parsed(TrueVal, i + 1)
    ELSE IF text[i] = "\""
    THEN IF \E j \in (i + 1)..Len(text) : text[j] = "\""
         THEN LET j == CHOOSE j \in (i + 1)..Len(text) :
                          text[j] = "\"" /\ \A k \in (i + 1)..(j - 1) : text[k] # "\""
              IN Parsed(Str(SubSeq(text, i + 1, j - 1)), j + 1)
         ELSE NotParsed
    ELSE IF text[i] = "["
    THEN IF At(text, i + 1, "]") THEN Parsed(PlainList(<<>>), i + 2)
         ELSE ParseElems(text, i + 1, <<>>)
    ELSE IF text[i] = "{"
    THEN IF At(text, i + 1, "}") THEN Parsed(Mapping(<<>>), i + 2)
         ELSE ParsePairs(text, i + 1, <<>>)
    ELSE NotParsed

\* after an item of a list, read as r
ItemParsed(text, r, acc) ==
    IF ~r.ok THEN NotParsed
    ELSE IF At(text, r.next, ",") THEN ParseElems(text, r.next + 1, Append(acc, r.val))
    ELSE IF At(text, r.next, "]") THEN Parsed(PlainList(Append(acc, r.val)), r.next + 1)
    ELSE NotParsed

ParseElems(text, i, acc) == ItemParsed(text, ParseValue(text, i), acc)

\* after the value of a key of a dict, read as r
ValueParsed(text, key, r, acc) ==
    IF ~r.ok THEN NotParsed
    ELSE IF At(text, r.next, ",")
    THEN ParsePairs(text, r.next + 1, PutPair(acc, key, r.val))
    ELSE IF At(text, r.next, "}")
    THEN Parsed(Mapping(PutPair(acc, key, r.val)), r.next + 1)
    ELSE NotParsed

\* after a key of a dict, read as r
KeyParsed(text, r, acc) ==
    IF ~r.ok \/ r.val.t # "str" \/ ~At(text, r.next, ":") THEN NotParsed
    ELSE ValueParsed(text, r.val, ParseValue(text, r.next + 1), acc)

ParsePairs(text, i, acc) == KeyParsed(text, ParseValue(text, i), acc)

\* The unpickler on the parsed JSON: a dict with the tuple tag becomes the
\* tuple of what its value iterates over (the items of a list, the characters
\* of a str; an int is not iterable).
RECURSIVE Restorable(_), Restored(_)
Restorable(x) ==
    CASE x.t = "list" -> \A i \in DOMAIN x.v : Restorable(x.v[i])
      [] x.t = "map" ->
           IF HasKey(x, TupleTag)
           THEN LET y == Lookup(x, TupleTag)
                IN \/ y.t = "str"
                   \/ y.t = "list" /\ \A i \in DOMAIN y.v : Restorable(y.v[i])
           ELSE \A i \in DOMAIN x.v : Restorable(x.v[i].v)
      [] OTHER -> TRUE

Restored(x) ==
    CASE x.t = "list" -> PlainList([i \in DOMAIN x.v |-> Restored(x.v[i])])
      [] x.t = "map" ->
           IF HasKey(x, TupleTag)
           THEN LET y == Lookup(x, TupleTag)
                IN IF y.t = "list" THEN Tuple([i \in DOMAIN y.v |-> Restored(y.v[i])])
                   ELSE Tuple([i \in DOMAIN y.v |-> Str(<<y.v[i]>>)])
           ELSE Mapping([i \in DOMAIN x.v |-> Pair(x.v[i].k, Restored(x.v[i].v))])
      [] OTHER -> x

\* jsonpickle.loads(x): raises for what is no str, for what is no JSON text
\* and for what the unpickler cannot restore.
Unpickled(text, r) ==
    IF ~(r.ok /\ r.next = Len(text) + 1) THEN Err("JSONDecodeError")
    ELSE IF ~Restorable(r.val) THEN Err("TypeError")
    ELSE Ok(Restored(r.val))

Loads(x) == IF x.t # "str" THEN Err("TypeError") ELSE Unpickled(x.v, ParseValue(x.v, 1))

(***************************************************************************)
(* argo_objects.py: ArgoParameter, and ArgoStep with its output parameters *)
(***************************************************************************)
\* A dict with str keys is a function here; a name is a text, so that the
\* reserved prefix is its first token.
Put(d, key, value) == [k \in DOMAIN d \cup {key} |-> IF k = key THEN value ELSE d[k]]

Prefix == "dflow_bigpar_"
Companion(name) == <<Prefix>> \o name

ParNames == {<<"p">>}

\* str(str) and str(int)
StrType == Str(<<"<class 'str'>">>)
IntType == Str(<<"<class 'int'>">>)

\* the values a caller hands over, nested up to depth d
Leaves == {IntVal(1), Str(<<"a">>), Str(<<"1">>)}
MapKeys == {Str(<<"a">>), Str(<<"value">>), TupleTag, IntVal(1)}

RECURSIVE Values(_)
Values(d) ==
    IF d = 0 THEN Leaves
    ELSE Values(d - 1)
         \cup {PlainList(<<x>>) : x \in Values(d - 1)}
         \cup {Mapping(<<Pair(k, IntVal(1))>>) : k \in MapKeys}

\* S3Artifact(key=key).to_dict(), wrapped
S3Dict(key) == PlainDict([key |-> IntVal(key)])

\* what the object store may hold before the step is looked at: an encoded
\* value, a legacy {type, value} document, a text that is no JSON
LegacyDocuments ==
    {Mapping(<<Pair(Str(<<"type">>), IntType), Pair(Str(<<"value">>), Str(<<"1">>))>>),
     Mapping(<<Pair(Str(<<"type">>), StrType), Pair(Str(<<"value">>), Str(<<"1">>))>>),
     Mapping(<<Pair(Str(<<"type">>), IntType), Pair(Str(<<"value">>), Str(<<"a">>))>>)}

StoredTexts == {Dumps(IntVal(1)), <<"a">>} \cup {Dumps(x) : x \in LegacyDocuments}

\* the description of a parameter, where one is recorded
Descriptions ==
    {NoneVal, Str(Dumps(Mapping(<<Pair(Str(<<"type">>), StrType)>>))),
     Str(Dumps(Mapping(<<Pair(Str(<<"type">>), IntType)>>)))}

WithDescription(d) == {d} \cup {Put(d, "description", x) : x \in Descriptions}

\* the outputs block of a node-status document: the parameter list and the
\* artifact list, each of them present or not
DeclaredParameters(name) ==
    {[name |-> Str(name)]} \cup WithDescription([name |-> Str(name), value |-> Str(<<"a">>)])

CompanionArtifacts(name, field) ==
    WithDescription(Put([name |-> Str(Companion(name))], field, S3Dict(1)))

NodeOutputs(name, field) ==
    LET pars == {<<>>} \cup {<<d>> : d \in DeclaredParameters(name)}
        arts == {<<d>> : d \in CompanionArtifacts(name, field)}
    IN {[parameters |-> p] : p \in pars}
       \cup {[artifacts |-> a] : a \in arts}
       \cup {[parameters |-> p, artifacts |-> a] : p \in pars, a \in arts}

\* {x.name: f(x) for x in li}
ByName(li) ==
    [n \in {li[i]["name"].v : i \in DOMAIN li} |->
        li[CHOOSE i \in DOMAIN li :
              li[i]["name"].v = n /\ \A j \in DOMAIN li : li[j]["name"].v = n => j <= i]]

\* list(d.values())
AsList(d) ==
    LET order == CHOOSE q \in [1..Cardinality(DOMAIN d) -> DOMAIN d] :
                     \A i, j \in DOMAIN q : q[i] = q[j] => i = j
    IN [i \in DOMAIN order |-> d[order[i]]]

HasPrefix(name) == Len(name) >= 1 /\ Head(name) = Prefix

handle_big_parameters(io) ==
    IF "artifacts" \notin DOMAIN io THEN io
    ELSE LET big == {n \in DOMAIN io.artifacts : HasPrefix(n)}
             old == IF "parameters" \in DOMAIN io THEN io.parameters ELSE EmptyDict
             new == {Tail(n) : n \in big} \ DOMAIN old
             par(n) == Put(Put(io.artifacts[Companion(n)], "name", Str(n)),
                           "save_as_artifact", TrueVal)
         IN IF big = {} THEN io
            ELSE Put(io, "parameters",
                     [n \in DOMAIN old \cup new |-> IF n \in new THEN par(n) ELSE old[n]])

handle_io(io) ==
    LET io1 == IF "parameters" \in DOMAIN io
               THEN Put(io, "parameters", ByName(io.parameters)) ELSE io
        io2 == IF "artifacts" \in DOMAIN io1
               THEN Put(io1, "artifacts", ByName(io1.artifacts)) ELSE io1
    IN handle_big_parameters(io2)

\* download_artifact into a temporary directory, then the one file read: the
\* text stored under the key the parameter refers to, or an exception when
\* the store cannot be reached or the parameter refers to nothing stored.
Download(par, objs, field, reachable) ==
    IF reachable /\ field \in DOMAIN par /\ par[field].v.key.v \in DOMAIN objs
    THEN Ok(Str(objs[par[field].v.key.v]))
    ELSE Err("DownloadError")

Loaded(par, warned) == [par |-> par, warned |-> warned]

\* The same block keeping the text of the file as the value.
LoadUndecoded(par, file) ==
    IF ~file.ok THEN Loaded(par, TRUE) ELSE Loaded(Put(par, "value", file.val), FALSE)

\* ArgoParameter.__getattr__, the block under the temporary directory
LoadFromArtifact(par, file) ==
    IF ~file.ok THEN Loaded(par, TRUE)
    ELSE LET decoded == Loads(file.val)
         IN IF ~decoded.ok THEN Loaded(par, TRUE)
            ELSE LET content == decoded.val
                     p1 == Put(par, "value", content)
                 IN IF HasKey(content, Str(<<"value">>))
                    THEN LET typed == HasKey(content, Str(<<"type">>))
                             p2 == IF typed
                                   THEN Put(p1, "type", Lookup(content, Str(<<"type">>)))
                                   ELSE p1
                             inner == Lookup(content, Str(<<"value">>))
                         IN IF typed /\ Lookup(content, Str(<<"type">>)) # StrType
                            THEN IF Loads(inner).ok
                                 THEN Loaded(Put(p2, "value", Loads(inner).val), FALSE)
                                 ELSE Loaded(p2, TRUE)
                            ELSE Loaded(Put(p2, "value", inner), FALSE)
                    ELSE Loaded(p1, FALSE)

\* ArgoObjectDict.__getattr__ on the parameter's fields
Field(par, key) == IF key \in DOMAIN par THEN Ok(par[key]) ELSE Err("AttributeError")

\* desc["type"] of the decoded description
DescribedType(par) ==
    LET desc == Loads(par["description"])
    IN IF ~desc.ok THEN desc
       ELSE IF HasKey(desc.val, Str(<<"type">>)) THEN Ok(Lookup(desc.val, Str(<<"type">>)))
       ELSE Err("KeyError")

\* ArgoParameter.__getattr__, the try under desc["type"] != str(str): the
\* decoded value, or the warning and the plain attribute
DecodedOr(plain, decoded) ==
    IF decoded.ok THEN [plain EXCEPT !.outcome = decoded] ELSE [plain EXCEPT !.warned = TRUE]

\* ArgoParameter.__getattr__ from the description on, l being the parameter
\* and the warning after the block under the temporary directory
Described(key, l, plain) ==
    IF key = "value" /\ "description" \in DOMAIN l.par /\ l.par["description"] # NoneVal
    THEN LET type == DescribedType(l.par)
         IN IF ~type.ok THEN [plain EXCEPT !.outcome = type]
            ELSE IF type.val # StrType
            THEN IF "value" \in DOMAIN l.par
                 THEN DecodedOr(plain, Loads(l.par["value"]))
                 ELSE [plain EXCEPT !.warned = TRUE]
            ELSE plain
    ELSE plain

Plain(key, l) == [par |-> l.par, warned |-> l.warned, outcome |-> Field(l.par, key)]

\* ArgoParameter.__getattr__(key): the parameter afterwards, whether a warning
\* was logged, and what the caller gets (a value or an exception)
ParameterGetAttr(par, key, file) ==
    LET absent == (key = "value" /\ "value" \notin DOMAIN par)
                  \/ (key = "type" /\ "type" \notin DOMAIN par)
        l == IF absent /\ "save_as_artifact" \in DOMAIN par
             THEN LoadFromArtifact(par, file) ELSE Loaded(par, FALSE)
    IN Described(key, l, Plain(key, l))

NoReading == [done |-> FALSE]
NoModification == [done |-> FALSE]

\* ArgoStep.__init__ on the node document: the outputs block of the step
ArgoStep(doc) == handle_io(doc)

InitPar ==
    /\ repo_type \in {"s3", "oss"}
    /\ \E name \in ParNames : status \in NodeOutputs(name, repo_type)
    /\ \E text \in StoredTexts :
          /\ "artifacts" \notin DOMAIN status => text = Dumps(IntVal(1))
          /\ store = <<text>>
          /\ encoded = <<IF text = Dumps(IntVal(1)) THEN Ok(IntVal(1)) ELSE Err("unknown")>>
    /\ argo_step = ArgoStep(status)
    /\ reading = NoReading
    /\ modified = NoModification

\* ArgoStep.modify_output_parameter(name, value)
modify_output_parameter(name, value) ==
    /\ "parameters" \in DOMAIN argo_step
    /\ name \in DOMAIN argo_step.parameters
    /\ LET par == Put(argo_step.parameters[name], "value",
                      IF value.t = "str" THEN value ELSE Str(Dumps(value)))
           argo_step1 == Put(argo_step, "parameters", Put(argo_step.parameters, name, par))
       IN IF "save_as_artifact" \in DOMAIN par
          THEN /\ Len(store) < MaxStored
               /\ store' = Append(store, Dumps(value))
               /\ encoded' = Append(encoded, Ok(value))
               /\ argo_step' = IF "artifacts" \in DOMAIN argo_step1
                             /\ Companion(name) \in DOMAIN argo_step1.artifacts
                          THEN Put(argo_step1, "artifacts",
                                   Put(argo_step1.artifacts, Companion(name),
                                       Put(argo_step1.artifacts[Companion(name)], repo_type,
                                           S3Dict(Len(store) + 1))))
                          ELSE argo_step1
          ELSE /\ argo_step' = argo_step1
               /\ UNCHANGED <<store, encoded>>
    /\ modified' = [done |-> TRUE, name |-> name, value |-> value]
    /\ reading' = NoReading
    /\ UNCHANGED <<status, repo_type>>
    /\ UNCHANGED outsidePar

\* step.outputs.parameters[name].value (or .type) read by the caller
ReadParameter(name, key, reachable) ==
    /\ "parameters" \in DOMAIN argo_step
    /\ name \in DOMAIN argo_step.parameters
    /\ LET par == argo_step.parameters[name]
           file == Download(par, store, repo_type, reachable)
           got == ParameterGetAttr(par, key, file)
       IN /\ argo_step' = Put(argo_step, "parameters", Put(argo_step.parameters, name, got.par))
          /\ reading' = [done |-> TRUE, name |-> name, key |-> key,
                         reachable |-> reachable,
                         backed |-> "save_as_artifact" \in DOMAIN par /\ key \notin DOMAIN par,
                         source |-> IF repo_type \in DOMAIN par
                                    THEN par[repo_type].v.key.v ELSE 0,
                         text |-> file,
                         warned |-> got.warned, outcome |-> got.outcome]
    /\ UNCHANGED <<store, encoded, status, repo_type, modified>>
    /\ UNCHANGED outsidePar

\* The node document now carries the artifacts as the step has them, and a
\* fresh ArgoStep is built from it.
Rebuild ==
    /\ "artifacts" \in DOMAIN argo_step
    /\ status' = Put(status, "artifacts", AsList(argo_step.artifacts))
    /\ argo_step' = ArgoStep(status')
    /\ modified' = NoModification
    /\ reading' = NoReading
    /\ UNCHANGED <<store, encoded, repo_type>>
    /\ UNCHANGED outsidePar

NextPar ==
    \/ \E name \in ParNames, value \in Values(MaxNesting) :
          modify_output_parameter(name, value)
    \/ \E name \in ParNames, key \in {"value", "type"}, reachable \in BOOLEAN :
          ReadParameter(name, key, reachable)
    \/ Rebuild

(***************************************************************************)
(* argo_objects.py: ArgoStep and its output artifacts                      *)
(***************************************************************************)
Remove(d, key) == [k \in DOMAIN d \ {key} |-> d[k]]

ArtNames == {<<"x">>}

\* "dflow_%s_path_list" % name
PathListName(name) == <<"dflow_">> \o name \o <<"_path_list">>

\* keys of the object store, as texts: key[-4:] is the last token
ArtifactKeys == {<<"k">>, <<"k", ".tgz">>}

EndsWithTgz(key) == Len(key) >= 1 /\ key[Len(key)] = ".tgz"

\* what the caller passes as s3: an S3Artifact with its key and local path,
\* or an object of another class
S3Artifacts == {[isS3 |-> b, key |-> k, local_path |-> Str(<<"l">> \o k)] :
                    b \in BOOLEAN, k \in ArtifactKeys}

\* s3.to_dict() and s3.oss().to_dict(), wrapped
KeyDict(key) == PlainDict([key |-> Str(key)])

\* the archive strategies of the engine
ArchiveNone == PlainDict([none |-> PlainDict(EmptyDict)])
ArchiveTar == PlainDict([tar |-> PlainDict(EmptyDict)])

\* the declared slices: a list of records with their order
SliceItem(order) == Mapping(<<Pair(Str(<<"order">>), IntVal(order))>>)

RECURSIVE SliceLists(_)
SliceLists(n) ==
    IF n = 0 THEN {<<>>}
    ELSE SliceLists(n - 1)
         \cup {Append(q, SliceItem(o)) : q \in {x \in SliceLists(n - 1) : Len(x) = n - 1},
                                         o \in 0..MaxOrder}

\* the paths a caller supplies: up to MaxSlices different paths in a list,
\* or one path that is not in a list
AllPaths == [i \in 1..MaxSlices |-> Str(<<"path", ToString(i)>>)]
SuppliedPaths == {PlainList(SubSeq(AllPaths, 1, n)) : n \in 0..MaxSlices} \cup {AllPaths[1]}

\* the outputs block of the node document of a sliced step
SlicedOutputs(name, field) ==
    LET arts == {Put([name |-> Str(name)], field, KeyDict(<<"k">>))}
        archived == arts \cup {Put(d, "archive", a) : d \in arts, a \in {ArchiveNone, ArchiveTar}}
        pars == {[name |-> Str(PathListName(name)), value |-> Str(Dumps(PlainList(q)))] :
                    q \in SliceLists(MaxSlices)}
    IN {[artifacts |-> <<a>>] : a \in archived}
       \cup {[artifacts |-> <<a>>, parameters |-> <<p>>] : a \in archived, p \in pars}

NoCall == [done |-> FALSE]

InitArt ==
    /\ mode \in {"default", "debug"}
    /\ repo_type \in {"s3", "oss"}
    /\ \E name \in ArtNames : status \in SlicedOutputs(name, repo_type)
    /\ argo_step = ArgoStep(status)
    /\ store = <<>>
    /\ encoded = <<>>
    /\ modified = NoModification
    /\ reading = NoReading
    /\ uploaded = <<>>
    /\ artifact_call = NoCall

\* ArgoStep.modify_output_artifact on the artifact, outside debug mode, from
\* the assignment of the reference on
Rewritten(art, field, key) ==
    LET a1 == IF field \in {"s3", "oss"} THEN Put(art, field, KeyDict(key)) ELSE art
    IN IF EndsWithTgz(key) /\ "archive" \in DOMAIN a1 THEN Remove(a1, "archive")
       ELSE IF ~EndsWithTgz(key) /\ "archive" \notin DOMAIN a1
       THEN Put(a1, "archive", ArchiveNone)
       ELSE a1

\* The same with the archive strategy never stated.
RewrittenUnstated(art, field, key) ==
    IF field \in {"s3", "oss"} THEN Put(art, field, KeyDict(key)) ELSE art

\* the step after modify_output_artifact(name, s3); raised tells an exception
ModifyArtifact(st, name, s3) ==
    IF "artifacts" \notin DOMAIN st \/ name \notin DOMAIN st.artifacts
    THEN [step |-> st, raised |-> TRUE]
    ELSE IF mode = "debug"
    THEN [step |-> Put(st, "artifacts",
                       Put(st.artifacts, name,
                           Put(st.artifacts[name], "local_path", s3.local_path))),
          raised |-> FALSE]
    ELSE IF ~s3.isS3 THEN [step |-> st, raised |-> TRUE]
    ELSE [step |-> Put(st, "artifacts",
                       Put(st.artifacts, name,
                           Rewritten(st.artifacts[name], repo_type, s3.key))),
          raised |-> FALSE]

\* ArgoStep.modify_output_artifact(name, s3)
modify_output_artifact(name, s3) ==
    /\ LET r == ModifyArtifact(argo_step, name, s3)
       IN /\ argo_step' = r.step
          /\ artifact_call' = [done |-> TRUE, op |-> "modify", name |-> name, s3 |-> s3,
                               before |-> argo_step, raised |-> r.raised]
    /\ UNCHANGED <<mode, uploaded, repo_type>>
    /\ UNCHANGED outsideArt

Order(item) == Lookup(item, Str(<<"order">>)).v

\* The declared list as it is.
Unsorted(q) == q

\* path_list.sort(key=lambda x: x['order']): a stable sort
RECURSIVE SortByOrder(_)
SortByOrder(q) ==
    IF q = <<>> THEN <<>>
    ELSE LET rest == SortByOrder(SubSeq(q, 1, Len(q) - 1))
             k == Cardinality({i \in DOMAIN rest : Order(rest[i]) <= Order(q[Len(q)])})
         IN SubSeq(rest, 1, k) \o <<q[Len(q)]>> \o SubSeq(rest, k + 1, Len(rest))

\* new_path after the loop over zip(path, path_list): index i of Python is
\* index i + 1 here
NewPath(paths, sorted) ==
    [i \in 1..(Order(sorted[Len(sorted)]) + 1) |->
        IF \E j \in DOMAIN sorted : Order(sorted[j]) = i - 1
        THEN paths[CHOOSE j \in DOMAIN sorted :
                      /\ Order(sorted[j]) = i - 1
                      /\ \A k \in DOMAIN sorted : Order(sorted[k]) = i - 1 => k <= j]
        ELSE NoneVal]

\* the items of the decoded path list
AsSlices(decoded) ==
    IF ~decoded.ok THEN decoded
    ELSE IF decoded.val.t # "list" THEN Err("TypeError")
    ELSE Ok(decoded.val.v)

DecodedSlices(value) == IF ~value.ok THEN value ELSE AsSlices(Loads(value.val))

\* the declared list of a sliced artifact, as the step reads it from its
\* parameter; an exception where the asserts or the decoding fail
DeclaredSlices(st, name) ==
    IF "parameters" \notin DOMAIN st \/ PathListName(name) \notin DOMAIN st.parameters
    THEN Err("AssertionError")
    ELSE DecodedSlices(ParameterGetAttr(st.parameters[PathListName(name)], "value",
                                        Err("DownloadError")).outcome)

\* upload_and_modify_sliced_output_artifact from the assert on the number of
\* paths on, declared being the decoded path list
UploadSlices(name, paths, s3, declared) ==
    LET built == declared.ok /\ Len(declared.val) = Len(paths) /\ declared.val # <<>>
        call == [done |-> TRUE, op |-> "upload", name |-> name, s3 |-> s3,
                 before |-> argo_step, raised |-> TRUE, built |-> FALSE,
                 declared |-> <<>>, paths |-> paths]
    IN IF ~built
       THEN /\ artifact_call' = call
            /\ UNCHANGED <<argo_step, uploaded>>
       ELSE LET r == ModifyArtifact(argo_step, name, s3)
            IN /\ uploaded' = NewPath(paths, SortByOrder(declared.val))
               /\ argo_step' = r.step
               /\ artifact_call' = [call EXCEPT !.raised = r.raised, !.built = TRUE,
                                                !.declared = declared.val]

\* ArgoStep.upload_and_modify_sliced_output_artifact(name, path); s3 is what
\* upload_artifact returns
upload_and_modify_sliced_output_artifact(name, path, s3) ==
    /\ s3.isS3
    /\ UploadSlices(name, IF path.t = "list" THEN path.v ELSE <<path>>, s3,
                    DeclaredSlices(argo_step, name))
    /\ UNCHANGED <<mode, repo_type>>
    /\ UNCHANGED outsideArt

NextArt ==
    \/ \E name \in ArtNames, s3 \in S3Artifacts : modify_output_artifact(name, s3)
    \/ \E name \in ArtNames, path \in SuppliedPaths, s3 \in S3Artifacts :
          upload_and_modify_sliced_output_artifact(name, path, s3)

(***************************************************************************)
(* argo_objects.py: get_pod_name and the FNV-1a hash                       *)
(***************************************************************************)
\* A str is the sequence of its bytes here (the names are ASCII, a node name
\* is given by its UTF-8 bytes). A 32-bit value is a pair of 16-bit halves,
\* so that no product leaves the integers TLC can hold.
max_k8s_resource_name_length == 253
k8s_naming_hash_length == 10

Half == 65536
Word(hi, lo) == [hi |-> hi, lo |-> lo]

\* 0x01000193
FNV_32_PRIME == 16777619
\* 0x811c9dc5
FNV1_32_INIT == Word(33052, 40389)

\* a ^ b on n bits
RECURSIVE BitXor(_, _, _)
BitXor(a, b, n) ==
    IF n = 0 THEN 0
    ELSE (((a % 2) + (b % 2)) % 2) + 2 * BitXor(a \div 2, b \div 2, n - 1)

\* hval ^ byte
XorByte(hval, byte) == Word(hval.hi, BitXor(hval.lo, byte, 16))

\* (hval * fnv_prime) % 2**32
TimesPrime(hval, fnv_prime) ==
    LET low == hval.lo * (fnv_prime % Half)
    IN Word((hval.hi * (fnv_prime % Half) + hval.lo * (fnv_prime \div Half) + (low \div Half))
               % Half,
            low % Half)

\* The hash with the product taken before the exclusive or (FNV-1).
RECURSIVE fnv(_, _, _)
fnv(data, hval_init, fnv_prime) ==
    IF data = <<>> THEN hval_init
    ELSE fnv(Tail(data), XorByte(TimesPrime(hval_init, fnv_prime), Head(data)), fnv_prime)

\* fnva(data, hval_init, fnv_prime, 2**32)
RECURSIVE fnva(_, _, _)
fnva(data, hval_init, fnv_prime) ==
    IF data = <<>> THEN hval_init
    ELSE fnva(Tail(data), TimesPrime(XorByte(hval_init, Head(data)), fnv_prime), fnv_prime)

\* hval // 10 and hval % 10
DivTen(hval) ==
    LET rest == (hval.hi % 10) * Half + hval.lo
    IN [q |-> Word(hval.hi \div 10, rest \div 10), d |-> rest % 10]

\* "%s" % hval: the decimal digits, as characters
RECURSIVE Decimal(_)
Decimal(hval) ==
    IF hval.hi = 0 /\ hval.lo < 10 THEN <<48 + hval.lo>>
    ELSE Decimal(DivTen(hval).q) \o <<48 + DivTen(hval).d>>

Dash == 45

\* The prefix as it is.
Untruncated(prefix) == prefix

\* prefix[:max_prefix_length-1] where the prefix is longer
Truncated(prefix) ==
    LET max_prefix_length == max_k8s_resource_name_length - k8s_naming_hash_length
    IN IF Len(prefix) > max_prefix_length - 1
       THEN SubSeq(prefix, 1, max_prefix_length - 1)
       ELSE prefix

get_pod_name(wf_name, node_name, template_name, node_id) ==
    IF wf_name = node_name THEN wf_name
    ELSE Truncated(wf_name \o <<Dash>> \o template_name)
         \o <<Dash>> \o Decimal(fnva(node_name, FNV1_32_INIT, FNV_32_PRIME))

Repeat(byte, n) == [i \in 1..n |-> byte]

\* the arguments: workflow names of every length up to MaxNameLength,
\* short template names, and node names with known hashes
WorkflowNames == {Repeat(119, n) : n \in 0..MaxNameLength}
TemplateNames == {Repeat(116, n) : n \in 0..2}
NodeNames == {<<>>, <<97>>, <<102, 111, 111, 98, 97, 114>>, <<195, 169>>, <<119>>}

NoName == [done |-> FALSE]

InitName ==
    /\ pod_args \in [wf_name : WorkflowNames, node_name : NodeNames,
                     template_name : TemplateNames, node_id : {<<49>>}]
    /\ pod_name = NoName
    /\ pod_name_before = NoName

\* one call of get_pod_name with the arguments
GetPodName ==
    /\ pod_name' = [done |-> TRUE,
                    name |-> get_pod_name(pod_args.wf_name, pod_args.node_name,
                                          pod_args.template_name, pod_args.node_id)]
    /\ pod_name_before' = pod_name
    /\ UNCHANGED pod_args
    /\ UNCHANGED outsideName

NextName == GetPodName

(***************************************************************************)
(* ArgoWorkflow.get_step: the nodes of the workflow's status, filtered     *)
(***************************************************************************)
\* a start time of None
NoTime == 0

NodeKeys == {"startedAt", "phase", "type", "inputs"}

DisplayNames == {<<"a">>, <<"a", "(", "0", ")">>, <<"b">>}

\* The nodes a workflow can hold under the id i. has is the set of keys the
\* node's dictionary holds beside id and displayName; a key it lacks has the
\* first value of its range here and is never read.
NodesOf(i) ==
    {n \in [id : {i}, has : SUBSET NodeKeys, startedAt : NoTime..MaxTime,
            displayName : DisplayNames, phase : {"Succeeded", "Failed"},
            type : {"Pod"}, dflow_key : {"k"}] :
        /\ "startedAt" \notin n.has => n.startedAt = NoTime
        /\ "phase" \notin n.has => n.phase = "Succeeded"}

RECURSIVE NodeLists(_)
NodeLists(i) ==
    IF i = 0 THEN {<<>>}
    ELSE {Append(l, n) : l \in NodeLists(i - 1), n \in NodesOf(i)}

\* a filter argument: None, or the list it was given as
NoFilter == [given |-> FALSE, list |-> {}]

Filter(list) == [given |-> TRUE, list |-> list]

NoSteps == [done |-> FALSE]

InitWf ==
    /\ \E n \in 0..MaxNodes :
           workflow \in [has_nodes : {TRUE}, nodes : NodeLists(n)]
                            \cup {[has_nodes |-> FALSE, nodes |-> <<>>]}
    /\ get_step_call = NoSteps

\* a match of the whole name only
ExactMatch(n, names) == n \in names

\* n == name or n.find(name + "(") == 0
match(n, names) ==
    \E name \in names :
        \/ n = name
        \/ /\ Len(n) >= Len(name) + 1
           /\ SubSeq(n, 1, Len(name) + 1) = Append(name, "(")

\* the value of the input parameter dflow_key, None where there is none
StepKey(step) ==
    IF "inputs" \in step.has THEN <<step.dflow_key>> ELSE <<>>

\* the conditions under which the loop goes on to the next node
Filtered(step, name, key, phases, id, type) ==
    \/ name.given /\ ~match(step.displayName, name.list)
    \/ key.given /\ StepKey(step) \notin key.list
    \/ phases.given /\ ~("phase" \in step.has /\ step.phase \in phases.list)
    \/ type.given /\ ~("type" \in step.has /\ step.type \in type.list)
    \/ id.given /\ step.id \notin id.list

\* list.sort(key=startedAt): stable, by insertion from the left
RECURSIVE InsertByStart(_, _)
InsertByStart(sorted, step) ==
    IF sorted = <<>> THEN <<step>>
    ELSE IF sorted[Len(sorted)].startedAt <= step.startedAt
         THEN Append(sorted, step)
         ELSE Append(InsertByStart(SubSeq(sorted, 1, Len(sorted) - 1), step),
                     sorted[Len(sorted)])

RECURSIVE SortByStart(_)
SortByStart(list) ==
    IF list = <<>> THEN <<>>
    ELSE InsertByStart(SortByStart(SubSeq(list, 1, Len(list) - 1)),
                       list[Len(list)])

\* the loop over status.nodes.values() from the i-th node on
RECURSIVE Scan(_, _, _, _, _, _, _, _)
Scan(nodes, i, step_list, name, key, phases, id, type) ==
    IF i > Len(nodes)
    THEN [done |-> TRUE, raised |-> "none", steps |-> SortByStart(step_list)]
    ELSE IF "startedAt" \notin nodes[i].has
    THEN [done |-> TRUE, raised |-> "KeyError", steps |-> <<>>]
    ELSE Scan(nodes, i + 1,
              IF \/ nodes[i].startedAt = NoTime
                 \/ Filtered(nodes[i], name, key, phases, id, type)
              THEN step_list ELSE Append(step_list, nodes[i]),
              name, key, phases, id, type)

get_step(wf, name, key, phases, id, type) ==
    IF wf.has_nodes
    THEN Scan(wf.nodes, 1, <<>>, name, key, phases, id, type)
    ELSE [done |-> TRUE, raised |-> "none", steps |-> <<>>]

\* one call of get_step with any filters; the call leaves the workflow as it
\* is, so one call on each workflow shows every call
GetStep ==
    /\ ~get_step_call.done
    /\ \E name \in {NoFilter, Filter({<<"a">>})},
          key \in {NoFilter, Filter({<<"k">>})},
          phases \in {NoFilter, Filter({"Succeeded"})},
          id \in {NoFilter, Filter({1})},
          type \in {NoFilter, Filter({"Pod"})} :
           get_step_call' =
               [get_step(workflow, name, key, phases, id, type)
                    EXCEPT !.steps = [j \in DOMAIN @ |-> @[j].id]]
                   @@ [args |-> [name |-> name, key |-> key, phase |-> phases,
                                 id |-> id, type |-> type]]
    /\ UNCHANGED workflow
    /\ UNCHANGED outsideWf

NextWf == GetStep

(***************************************************************************)
(* dag.py: building a DAG (__init__, add) and copying it                   *)
(***************************************************************************)
\* The Task objects the caller has built: MaxMain tasks, the k-th at position
\* 3k-2 of the heap, its prepare step at 3k-1 and its check step at 3k; 0 is
\* None. A satellite step has no satellites of its own.
Mains == {3 * k - 2 : k \in 1..MaxMain}

Built(prepared, checked, templ) ==
    [o \in 1..(3 * MaxMain) |->
        [prepare_step |-> IF o \in prepared THEN o + 1 ELSE 0,
         check_step   |-> IF o \in checked THEN o + 2 ELSE 0,
         template     |-> templ[o]]]

\* the lists of tasks a caller passes: up to n of its tasks, in any order
RECURSIVE TaskLists(_)
TaskLists(n) ==
    IF n = 0 THEN {<<>>}
    ELSE TaskLists(n - 1) \cup
         {Append(l, t) : l \in {x \in TaskLists(n - 1) : Len(x) = n - 1}, t \in Mains}

\* add, lines 84-89: one task of the list
AppendTask(objs, list, t) ==
    LET prepared == IF objs[t].prepare_step # 0
                    THEN Append(list, objs[t].prepare_step) ELSE list
        main == Append(prepared, t)
    IN IF objs[t].check_step # 0 THEN Append(main, objs[t].check_step) ELSE main

\* an add that takes the first task of a list only
AddFirst(objs, list, task) ==
    IF task = <<>> THEN list ELSE AppendTask(objs, list, Head(task))

\* add, line 84: the loop over the list
RECURSIVE add(_, _, _)
add(objs, list, task) ==
    IF task = <<>> THEN list
    ELSE add(objs, AppendTask(objs, list, Head(task)), Tail(task))

DagName == <<"d">>

\* DAG.__init__, lines 45-48, with the tasks given to the constructor
InitBuild ==
    /\ \E prepared \in SUBSET Mains, checked \in SUBSET Mains,
          templ \in [1..(3 * MaxMain) -> 1..2] :
           /\ \A o \in 1..(3 * MaxMain) \ Mains : templ[o] = 1
           /\ task_objs = Built(prepared, checked, templ)
    /\ templates = 2
    /\ \E l \in TaskLists(1) :
           dag_objs = <<[name |-> DagName, tasks |-> add(task_objs, <<>>, l),
                         added |-> l, origin |-> [of |-> 0, len |-> 0]]>>

\* dag.add(task) for a list of tasks
AddList(d, task) ==
    /\ d \in DOMAIN dag_objs
    /\ Len(add(task_objs, dag_objs[d].tasks, task)) <= MaxEntries
    /\ dag_objs' = [dag_objs EXCEPT
                       ![d].tasks = add(task_objs, @, task),
                       ![d].added = @ \o task]
    /\ UNCHANGED <<task_objs, templates>>
    /\ UNCHANGED outsideBuild

\* dag.add(task) for one task, line 81: task = [task]
AddTask(d, t) ==
    /\ d \in DOMAIN dag_objs
    /\ Len(add(task_objs, dag_objs[d].tasks, <<t>>)) <= MaxEntries
    /\ dag_objs' = [dag_objs EXCEPT
                       ![d].tasks = add(task_objs, @, <<t>>),
                       ![d].added = Append(@, t)]
    /\ UNCHANGED <<task_objs, templates>>
    /\ UNCHANGED outsideBuild

\* deepcopy(self): every Task the DAG reaches is duplicated once, and so is
\* every template those reach
Reached(list, objs) ==
    (Range(list) \cup {objs[t].prepare_step : t \in Range(list)}
                 \cup {objs[t].check_step : t \in Range(list)}) \ {0}

Duplicate(o, reached, objs) ==
    IF o = 0 THEN 0 ELSE Len(objs) + Cardinality({x \in reached : x <= o})

DuplicateTemplate(tp, reached, objs, n) ==
    n + Cardinality({x \in {objs[o].template : o \in reached} : x <= tp})

\* the duplicates, in the order of their positions in the heap
RECURSIVE Duplicates(_, _, _, _)
Duplicates(todo, reached, objs, n) ==
    IF todo = {} THEN <<>>
    ELSE LET o == CHOOSE x \in todo : \A y \in todo : x <= y
         IN <<[prepare_step |-> Duplicate(objs[o].prepare_step, reached, objs),
               check_step   |-> Duplicate(objs[o].check_step, reached, objs),
               template     |-> DuplicateTemplate(objs[o].template, reached, objs, n)]>>
            \o Duplicates(todo \ {o}, reached, objs, n)

\* a copy whose tasks keep the duplicated templates
Unlinked(objs, old, new) == objs

\* copy, lines 169-170: new_task.template = task.template over the zip
Relink(objs, old, new) ==
    [o \in DOMAIN objs |->
        IF \E i \in DOMAIN new : new[i] = o
        THEN LET last_i == CHOOSE i \in DOMAIN new :
                               new[i] = o /\ \A k \in (i + 1)..Len(new) : new[k] # o
             IN [objs[o] EXCEPT !.template = objs[old[last_i]].template]
        ELSE objs[o]]

\* the strings randstr can return
Suffixes == {<<"x">>, <<"y">>}

\* dag.copy()
Copy(d, suffix) ==
    /\ d \in DOMAIN dag_objs
    /\ Len(dag_objs) < MaxDags
    /\ LET self == dag_objs[d]
           reached == Reached(self.tasks, task_objs)
           new_tasks == [i \in DOMAIN self.tasks |->
                            Duplicate(self.tasks[i], reached, task_objs)]
           copied == task_objs \o Duplicates(reached, reached, task_objs, templates)
       IN /\ task_objs' = Relink(copied, self.tasks, new_tasks)
          /\ templates' = templates
                 + Cardinality({task_objs[o].template : o \in reached})
          /\ dag_objs' = Append(dag_objs,
                 [name |-> self.name \o <<"-">> \o suffix,
                  tasks |-> new_tasks,
                  added |-> [i \in DOMAIN self.added |->
                                Duplicate(self.added[i], reached, task_objs)],
                  origin |-> [of |-> d, len |-> Len(self.tasks)]])
    /\ UNCHANGED outsideBuild

NextBuild ==
    \/ \E d \in 1..MaxDags, t \in Mains : AddTask(d, t)
    \/ \E d \in 1..MaxDags, l \in TaskLists(2) : AddList(d, l)
    \/ \E d \in 1..MaxDags, suffix \in Suffixes : Copy(d, suffix)

(***************************************************************************)
(* argo_objects.py: the pod of a step, its script, and replay              *)
(***************************************************************************)
Quote == "\""
Backslash == "\\"
Newline == "\n"

\* json.dumps of a str: the quote, the backslash and the newline are escaped
RECURSIVE Escaped(_)
Escaped(text) ==
    IF text = <<>> THEN <<>>
    ELSE (CASE Head(text) = Quote -> <<Backslash, Quote>>
            [] Head(text) = Backslash -> <<Backslash, Backslash>>
            [] Head(text) = Newline -> <<Backslash, "n">>
            [] OTHER -> <<Head(text)>>) \o Escaped(Tail(text))

\* the JSON text of a str or of a dict of them, with the given separators
RECURSIVE Encoded(_, _, _), EncodedItems(_, _, _)
Encoded(x, comma, colon) ==
    IF x.t = "str" THEN <<Quote>> \o Escaped(x.v) \o <<Quote>>
    ELSE <<"{">> \o EncodedItems(x.v, comma, colon) \o <<"}">>

EncodedItems(q, comma, colon) ==
    IF q = <<>> THEN <<>>
    ELSE LET first == Encoded(q[1].k, comma, colon) \o colon
                          \o Encoded(q[1].v, comma, colon)
         IN IF Len(q) = 1 THEN first
            ELSE first \o comma \o EncodedItems(Tail(q), comma, colon)

\* json.dumps(x), with the default separators ', ' and ': '
json_dumps(x) == Encoded(x, <<",", " ">>, <<":", " ">>)

\* the text the workflow controller writes: no spaces
Compact(x) == Encoded(x, <<",">>, <<":">>)

\* the position of the first token from i on that is no space
SkipSpace(text, i) ==
    CHOOSE j \in i..(Len(text) + 1) :
        /\ j = Len(text) + 1 \/ text[j] # " "
        /\ \A k \in i..(j - 1) : text[k] = " "

\* a JSON string from the token after its opening quote on
RECURSIVE ReadString(_, _, _)
ReadString(text, i, acc) ==
    IF i > Len(text) \/ text[i] = Newline THEN NotParsed
    ELSE IF text[i] = Quote THEN Parsed(Str(acc), i + 1)
    ELSE IF text[i] # Backslash THEN ReadString(text, i + 1, Append(acc, text[i]))
    ELSE IF i + 1 > Len(text) THEN NotParsed
    ELSE IF text[i + 1] = "n" THEN ReadString(text, i + 2, Append(acc, Newline))
    ELSE IF text[i + 1] \in {Quote, Backslash}
    THEN ReadString(text, i + 2, Append(acc, text[i + 1]))
    ELSE NotParsed

\* json.loads from position i on: strings and objects
RECURSIVE ReadValue(_, _), ReadMembers(_, _, _)
ReadAt(text, i) ==
    IF i > Len(text) THEN NotParsed
    ELSE IF text[i] = Quote THEN ReadString(text, i + 1, <<>>)
    ELSE IF text[i] # "{" THEN NotParsed
    ELSE IF At(text, SkipSpace(text, i + 1), "}")
    THEN Parsed(Mapping(<<>>), SkipSpace(text, i + 1) + 1)
    ELSE ReadMembers(text, SkipSpace(text, i + 1), <<>>)

ReadValue(text, i) == ReadAt(text, SkipSpace(text, i))

\* after the value of a key, read as r, at the first token j that is no space
MemberRead(text, key, r, j, acc) ==
    IF At(text, j, ",")
    THEN ReadMembers(text, SkipSpace(text, j + 1), PutPair(acc, key, r.val))
    ELSE IF At(text, j, "}") THEN Parsed(Mapping(PutPair(acc, key, r.val)), j + 1)
    ELSE NotParsed

ValueRead(text, key, r, acc) ==
    IF ~r.ok THEN NotParsed
    ELSE MemberRead(text, key, r, SkipSpace(text, r.next), acc)

\* after a key, read as r, at the first token j that is no space
KeyRead(text, r, j, acc) ==
    IF ~At(text, j, ":") THEN NotParsed
    ELSE ValueRead(text, r.val, ReadValue(text, j + 1), acc)

StringRead(text, r, acc) ==
    IF ~r.ok THEN NotParsed ELSE KeyRead(text, r, SkipSpace(text, r.next), acc)

ReadMembers(text, i, acc) ==
    IF ~At(text, i, Quote) THEN NotParsed
    ELSE StringRead(text, ReadString(text, i + 1, <<>>), acc)

Decoded(text, r) ==
    IF r.ok /\ SkipSpace(text, r.next) = Len(text) + 1
    THEN Ok(r.val) ELSE Err("JSONDecodeError")

json_loads(text) == Decoded(text, ReadValue(text, 1))

\* the scripts: plain, with the characters JSON escapes, and with JSON's own
\* punctuation
Scripts == {<<"p">>, <<"p", Quote, Backslash, Newline, "n">>, <<"{", " ", "}", ",">>}

ScriptKey == Str(<<"script">>)
SourceKey == Str(<<"source">>)

\* the template descriptor of a script template
Template(source) ==
    Mapping(<<Pair(Str(<<"name">>), Str(<<"t">>)),
              Pair(ScriptKey, Mapping(<<Pair(Str(<<"image">>), Str(<<"i">>)),
                                        Pair(SourceKey, Str(source))>>))>>)

Containers == {"init", "wait", "main"}

\* the pod as the API server returns it: ARGO_TEMPLATE of its containers
PodOf(source) ==
    [loaded |-> TRUE, resource_version |-> "1",
     env |-> [c \in Containers |-> Compact(Template(source))]]

NoPod == [loaded |-> FALSE]

NoPodCall == [op |-> "none", raised |-> "none"]

\* ArgoStep.__init__, line 115: self.pod = None
InitPod ==
    /\ pod = NoPod
    /\ cluster \in {PodOf(source) : source \in Scripts}
    /\ api_calls = <<>>
    /\ pod_call = NoPodCall
    /\ script_set = [set |-> FALSE]

\* what self.pod is when the call is made
Stamp(p) == IF p.loaded THEN p.resource_version ELSE "unloaded"

Call(verb, p, ok) == [verb |-> verb, version |-> Stamp(p), ok |-> ok]

\* get_pod, lines 269-281
GetPod(ok) ==
    /\ api_calls' = <<Call("GET", pod, ok)>>
    /\ pod' = IF ok THEN cluster ELSE pod
    /\ pod_call' = [op |-> "get_pod", raised |-> IF ok THEN "none" ELSE "ApiException"]
    /\ script_set' = IF ok THEN [set |-> FALSE] ELSE script_set
    /\ UNCHANGED cluster
    /\ UNCHANGED outsidePod

\* lines 284-285, 294-295, 315-316: if self.pod is None: self.get_pod()
LazyCalls(ok) == IF pod.loaded THEN <<>> ELSE <<Call("GET", pod, ok)>>

Fetched == IF pod.loaded THEN pod ELSE cluster

\* set_script that rewrites the main container only
WriteMain(env, text) == [env EXCEPT !["main"] = text]

\* set_script, lines 302, 307, 312: the three containers get the text
WriteAll(env, text) == [c \in DOMAIN env |-> text]

\* templ["script"]["source"] = script
WithSource(templ, script) ==
    Mapping(PutPair(templ.v, ScriptKey,
                    Mapping(PutPair(Lookup(templ, ScriptKey).v, SourceKey, Str(script)))))

\* set_script, lines 300-312, on the pod p with the decoded template
Rewrite(p, templ, script) ==
    IF templ.ok
    THEN [pod |-> [p EXCEPT !.env = WriteAll(@, json_dumps(WithSource(templ.val, script)))],
          raised |-> "none"]
    ELSE [pod |-> p, raised |-> templ.val.v]

\* set_script, lines 293-312
SetScript(script, ok) ==
    /\ pod.loaded => ok
    /\ api_calls' = LazyCalls(ok)
    /\ IF ~ok
       THEN /\ pod_call' = [op |-> "set_script", raised |-> "ApiException"]
            /\ UNCHANGED <<pod, script_set>>
       ELSE LET done == Rewrite(Fetched, json_loads(Fetched.env["main"]), script)
            IN /\ pod' = done.pod
               /\ pod_call' = [op |-> "set_script", raised |-> done.raised]
               /\ script_set' = IF done.raised = "none"
                                THEN [set |-> TRUE, script |-> script]
                                ELSE script_set
    /\ UNCHANGED cluster
    /\ UNCHANGED outsidePod

\* get_script, lines 290-291, with the decoded template
Source(templ) ==
    IF templ.ok
    THEN [op |-> "get_script", raised |-> "none",
          returned |-> Lookup(Lookup(templ.val, ScriptKey), SourceKey).v]
    ELSE [op |-> "get_script", raised |-> templ.val.v]

\* get_script, lines 283-291
GetScript(ok) ==
    /\ pod.loaded => ok
    /\ api_calls' = LazyCalls(ok)
    /\ IF ~ok
       THEN /\ pod_call' = [op |-> "get_script", raised |-> "ApiException"]
            /\ UNCHANGED pod
       ELSE /\ pod' = Fetched
            /\ pod_call' = Source(json_loads(Fetched.env["main"]))
    /\ UNCHANGED <<cluster, script_set>>
    /\ UNCHANGED outsidePod

\* a replay that leaves the stamp
KeepVersion(p) == p

\* replay, line 317: self.pod.metadata.resource_version = None
ClearVersion(p) == [p EXCEPT !.resource_version = "None"]

\* replay, lines 314-331: deleted and posted are what the API server answers
Replay(ok, deleted, posted) ==
    /\ pod.loaded => ok
    /\ IF ~ok
       THEN /\ api_calls' = LazyCalls(ok)
            /\ pod_call' = [op |-> "replay", raised |-> "ApiException",
                            logged |-> FALSE]
            /\ UNCHANGED <<pod, cluster>>
       ELSE LET body == ClearVersion(Fetched)
            IN /\ pod' = body
               /\ api_calls' = LazyCalls(ok)
                      \o <<Call("DELETE", body, deleted), Call("POST", body, posted)>>
               /\ pod_call' = [op |-> "replay",
                               raised |-> IF posted THEN "none" ELSE "ApiException",
                               logged |-> ~deleted]
               /\ cluster' = IF posted THEN [body EXCEPT !.resource_version = "1"]
                             ELSE cluster
    /\ UNCHANGED script_set
    /\ UNCHANGED outsidePod

NextPod ==
    \/ \E ok \in BOOLEAN : GetPod(ok)
    \/ \E script \in Scripts, ok \in BOOLEAN : SetScript(script, ok)
    \/ \E ok \in BOOLEAN : GetScript(ok)
    \/ \E ok \in BOOLEAN, deleted \in BOOLEAN, posted \in BOOLEAN :
           Replay(ok, deleted, posted)

(***************************************************************************)
(* Specifications: one per part, the other parts idle                      *)
(***************************************************************************)
IdleDag ==
    /\ tasks = <<>>
    /\ dependencies = <<>>
    /\ continue_on_failed = <<>>
    /\ phase = <<>>
    /\ outputs = <<>>
    /\ waiting = <<>>
    /\ running = <<>>
    /\ finished = <<>>
    /\ futures = <<>>
    /\ pc = "idle"
    /\ last = <<0, "none">>

IdleTree ==
    /\ heap = <<>>
    /\ root = 0
    /\ child = IntVal(0)
    /\ childPath = <<>>
    /\ written = <<>>

IdleIO ==
    /\ objects = <<>>
    /\ parameters = <<>>
    /\ artifacts = <<>>
    /\ assigned = <<"none", "none", 0>>

IdlePar ==
    /\ status = <<>>
    /\ argo_step = <<>>
    /\ store = <<>>
    /\ encoded = <<>>
    /\ repo_type = "s3"
    /\ modified = [done |-> FALSE]
    /\ reading = [done |-> FALSE]

IdleArt ==
    /\ mode = "default"
    /\ uploaded = <<>>
    /\ artifact_call = [done |-> FALSE]

IdleName ==
    /\ pod_args = <<>>
    /\ pod_name = [done |-> FALSE]
    /\ pod_name_before = [done |-> FALSE]

IdleWf ==
    /\ workflow = <<>>
    /\ get_step_call = [done |-> FALSE]

IdleBuild ==
    /\ task_objs = <<>>
    /\ templates = 0
    /\ dag_objs = <<>>

IdlePod ==
    /\ pod = [loaded |-> FALSE]
    /\ cluster = <<>>
    /\ api_calls = <<>>
    /\ pod_call = [op |-> "none", raised |-> "none"]
    /\ script_set = [set |-> FALSE]

\* the local debug scheduler
DagInit == InitDag /\ IdleIO /\ IdleTree /\ IdlePar /\ IdleArt /\ IdleName /\ IdleWf /\ IdleBuild /\ IdlePod

Spec == DagInit /\ [][NextDag]_vars

\* DAG.run, lines 144-147: as_completed yields the future of a worker that
\* has completed
Completion == \E k \in 1..MaxTasks : CompleteReturned(k) \/ CompleteFailed(k)

\* the scheduler where run goes on from one statement to the next and every
\* worker the pool was given completes
SpecFair ==
    DagInit /\ [][NextDag]_vars
        /\ WF_vars(Run) /\ WF_vars(Completion) /\ WF_vars(Return)

\* the IO containers
IOInit == InitIO /\ IdleDag /\ IdleTree /\ IdlePar /\ IdleArt /\ IdleName /\ IdleWf /\ IdleBuild /\ IdlePod

SpecIO == IOInit /\ [][NextIO]_vars

TreeInit == InitTree /\ IdleDag /\ IdleIO /\ IdlePar /\ IdleArt /\ IdleName /\ IdleWf /\ IdleBuild /\ IdlePod

\* the reflective tree
SpecTree == TreeInit /\ [][NextTree]_vars

ParInit == InitPar /\ IdleDag /\ IdleIO /\ IdleTree /\ IdleArt /\ IdleName /\ IdleWf /\ IdleBuild /\ IdlePod

\* the output parameters of a step
SpecParam == ParInit /\ [][NextPar]_vars

ArtInit == InitArt /\ IdleDag /\ IdleIO /\ IdleTree /\ IdleName /\ IdleWf /\ IdleBuild /\ IdlePod

\* the output artifacts of a step
SpecArt == ArtInit /\ [][NextArt]_vars

NameInit == InitName /\ IdleDag /\ IdleIO /\ IdleTree /\ IdlePar /\ IdleArt /\ IdleWf /\ IdleBuild /\ IdlePod

\* the pod names
SpecName == NameInit /\ [][NextName]_vars

WfInit == InitWf /\ IdleDag /\ IdleIO /\ IdleTree /\ IdlePar /\ IdleArt /\ IdleName /\ IdleBuild /\ IdlePod

\* the steps of a workflow
SpecWf == WfInit /\ [][NextWf]_vars

BuildInit == InitBuild /\ IdleDag /\ IdleIO /\ IdleTree /\ IdlePar /\ IdleArt /\ IdleName /\ IdleWf /\ IdlePod

\* building and copying DAGs
SpecBuild == BuildInit /\ [][NextBuild]_vars

PodInit == InitPod /\ IdleDag /\ IdleIO /\ IdleTree /\ IdlePar /\ IdleArt /\ IdleName /\ IdleWf /\ IdleBuild

\* the pod of a step
SpecPod == PodInit /\ [][NextPod]_vars

(***************************************************************************)
(* Properties of the scheduler                                             *)
(***************************************************************************)
DagTasks == Range(tasks)

Dispatched == Range(running) \cup Range(finished)

RECURSIVE DepClosure(_)
DepClosure(S) ==
    LET N == S \cup UNION {dependencies[x] : x \in S \cap DOMAIN dependencies}
    IN IF N = S THEN S ELSE DepClosure(N)

\* every task t depends on, directly or through other tasks
TransitiveDeps(t) == DepClosure(dependencies[t])

OnCycle(t) == t \in TransitiveDeps(t)

HasCycle == \E t \in DagTasks : OnCycle(t)

\* t is on a dependency cycle or depends, directly or not, on a task that is
BehindCycle(t) == \E c \in TransitiveDeps(t) \cup {t} : c \in DagTasks /\ OnCycle(c)

\* C1: in every step of DAG.run, each task that enters running (is dispatched
\* to the pool) has every one of its declared dependencies in finished.
C1_DispatchOnlyWhenDepsFinished ==
    [][\A t \in Range(running') \ Range(running) :
          \A dep \in dependencies[t] : Contains(finished', dep)]_vars

\* a task with two dependencies has been dispatched
C1_Witness ==
    \E t \in Range(running) :
        /\ Cardinality(dependencies[t]) >= 2
        /\ \A dep \in dependencies[t] : Contains(finished, dep)

\* C2: when DAG.run returns for an acyclic DAG, finished holds as many tasks as
\* the DAG and every task of DAG.tasks has phase Finished or Failed.
C2_AllFinishedOrFailed ==
    (pc = "done" /\ ~HasCycle) =>
        /\ Len(finished) = Len(tasks)
        /\ \A i \in DOMAIN tasks : phase[tasks[i]] \in {"Finished", "Failed"}

\* C3: when the completion handled last is the failure of a task T that does
\* not tolerate failure, the run has raised, T is Failed and not in finished,
\* no task depending on T (directly or not) was dispatched, and the run takes
\* no further step (nothing is dispatched afterwards).
C3_NonTolerantFailureRaises ==
    (last[2] = "exception" /\ ~continue_on_failed[tasks[last[1]]]) =>
        LET T == tasks[last[1]]
        IN /\ pc = "raised"
           /\ phase[T] = "Failed"
           /\ ~Contains(finished, T)
           /\ \A t \in DagTasks : T \in TransitiveDeps(t) => t \notin Dispatched
           /\ ~ENABLED NextDag

\* the run raised while a sibling was still running and a dependent waited
C3_Witness ==
    /\ pc = "raised"
    /\ Len(futures) > 0
    /\ \E t \in Range(waiting) : tasks[last[1]] \in TransitiveDeps(t)

\* C4: when the completion handled last is the failure of a tolerant task T,
\* the run has not raised, T is Failed, in finished and out of running, and
\* every task whose dependencies are all in finished has been dispatched.
C4_TolerantFailureProceeds ==
    (last[2] = "exception" /\ continue_on_failed[tasks[last[1]]]) =>
        LET T == tasks[last[1]]
        IN /\ pc # "raised"
           /\ phase[T] = "Failed"
           /\ Contains(finished, T)
           /\ ~Contains(running, T)
           /\ \A t \in DagTasks : Ready(t, finished) => t \in Dispatched

\* C5: with a dependency cycle among the tasks of the DAG, DAG.run never
\* returns normally, no task on a cycle or depending on one is ever dispatched,
\* and when running is empty the final assertion fails with only tasks that
\* are not ready left in waiting.
C5_CycleNeverReturns ==
    HasCycle =>
        /\ pc # "done"
        /\ \A t \in DagTasks : BehindCycle(t) => t \notin Dispatched
        /\ (pc = "loop" /\ Len(running) = 0) => ~AllFinished
        /\ pc = "cyclic" => \A t \in Range(waiting) : ~Ready(t, finished)

\* the run of a cyclic DAG ended with the assertion failure after it had
\* finished a task that is on no cycle
C5_Witness ==
    /\ HasCycle
    /\ pc = "cyclic"
    /\ Len(finished) > 0
    /\ \E t \in Range(waiting) : ~OnCycle(t) /\ BehindCycle(t)

(***************************************************************************)
(* Properties of the IO containers                                         *)
(***************************************************************************)
\* C6: every entry stored under a key of Inputs.parameters or
\* Inputs.artifacts has that key as its name.
C6_AutoNaming ==
    /\ \A key \in DOMAIN parameters : objects[parameters[key]].name = key
    /\ \A key \in DOMAIN artifacts : objects[artifacts[key]].name = key

\* an entry already stored under one key was assigned under the other key
C6_Witness ==
    /\ assigned[1] = "parameters"
    /\ \E other \in DOMAIN parameters :
          /\ other # assigned[2]
          /\ parameters[other] = assigned[3]
          /\ assigned[2] \in DOMAIN parameters

(***************************************************************************)
(* Properties of the reflective tree                                       *)
(***************************************************************************)
\* the item the wrapper x holds in its data under the key or index of step
HeldBy(h, x, step) ==
    IF x.t # "ref" THEN Err("TypeError")
    ELSE LET node == h[x.v]
         IN IF node.data.t # node.kind THEN Err("TypeError")
            ELSE IF (step.a = "attr") # (node.kind = "dict") THEN Err("TypeError")
            ELSE IF step.k \in DOMAIN node.data.v THEN Ok(node.data.v[step.k])
            ELSE Err("KeyError")

\* the item the tree holds at the end of a path of fields and indices
RECURSIVE HeldAlong(_, _, _)
HeldAlong(h, x, path) ==
    IF path = <<>> THEN Ok(x)
    ELSE LET r == HeldBy(h, x, Head(path))
         IN IF r.ok THEN HeldAlong(h, r.val, Tail(path)) ELSE r

ReservedNames == {"data"} \cup ClassAttributes

PlainPath(path) ==
    \A i \in DOMAIN path : path[i].a = "attr" => path[i].k \notin ReservedNames

\* a child obtained by access to a field or an element is the node the tree holds
SameNode(path) ==
    HeldAlong(heap, Ref(root), path).ok => child = HeldAlong(heap, Ref(root), path).val

\* the assignment w, made through a child obtained along fields and elements
\* of the tree, reads back through the root
Visible(w) ==
    (Len(w.path) >= 1 /\ HeldAlong(heap, Ref(root), w.path).ok) =>
        ReadFrom(heap, Ref(root), Append(w.path, AttrStep(w.key))) = Ok(w.value)

\* C7: a child obtained from the root by attribute access and indexing is the
\* node the tree holds there, and the attribute assignment made last through
\* such a child is what reading the same path through the root returns.
C7_WriteThrough ==
    /\ SameNode(childPath)
    /\ written # <<>> => Visible(written[Len(written)])

\* the same, for field names that are not names of the wrapper's own attributes
WriteThroughForPlainNames ==
    /\ PlainPath(childPath) => SameNode(childPath)
    /\ written # <<>> =>
          LET w == written[Len(written)]
          IN (PlainPath(w.path) /\ \A i \in DOMAIN written : written[i].key \notin ReservedNames)
                 => w.ok /\ Visible(w)

\* an assignment through a child two levels down, reached through a list
WriteThroughWitness ==
    /\ written # <<>>
    /\ LET w == written[Len(written)]
       IN /\ Len(w.path) = 2
          /\ w.path[2].a = "item"
          /\ PlainPath(w.path)
          /\ w.key = "a"
          /\ w.ok

(***************************************************************************)
(* Properties of the output parameters of a step                           *)
(***************************************************************************)
\* the read made last is a read of the value the last modification gave
ReadAfterModify ==
    /\ reading.done
    /\ modified.done
    /\ reading.key = "value"
    /\ reading.name = modified.name

\* C8: after modify_output_parameter(name, v), reading
\* outputs.parameters[name].value returns v, for every v among strings,
\* integers, mappings and nested lists.
C8_ValueRoundTrip ==
    ReadAfterModify => reading.outcome = Ok(modified.value)

\* the entries of a list of the node document that go by the name
Entries(li, name) == {i \in DOMAIN li : li[i]["name"].v = name}

CompanionEntries(name) ==
    IF "artifacts" \in DOMAIN status
    THEN {status.artifacts[i] : i \in Entries(status.artifacts, Companion(name))}
    ELSE {}

DeclaredEntries(name) ==
    IF "parameters" \in DOMAIN status
    THEN {status.parameters[i] : i \in Entries(status.parameters, name)}
    ELSE {}

\* The read made last is a read of the value of a parameter of a step built
\* from the node document and not modified since; the document carries the
\* companion artifact art of the parameter and no scalar value for it; the
\* store can be reached.
FreshRead(art) ==
    /\ reading.done
    /\ ~modified.done
    /\ reading.key = "value"
    /\ reading.reachable
    /\ art \in CompanionEntries(reading.name)
    /\ \A d \in DeclaredEntries(reading.name) : "value" \notin DOMAIN d

\* the value whose encoding the companion artifact refers to, where known
Written(art) == encoded[art[repo_type].v.key.v]

RECURSIVE PlainKeys(_)
PlainKeys(x) ==
    CASE x.t = "list" -> \A i \in DOMAIN x.v : PlainKeys(x.v[i])
      [] x.t = "map" -> \A i \in DOMAIN x.v :
                           /\ x.v[i].k.t = "str"
                           /\ x.v[i].k # TupleTag
                           /\ PlainKeys(x.v[i].v)
      [] OTHER -> TRUE

FailedLoad ==
    /\ reading.done
    /\ reading.key = "value"
    /\ reading.backed
    /\ \/ ~reading.text.ok
       \/ ~Loads(reading.text.val).ok

\* C10: such a read logs a warning and raises no exception; the value
\* remains unset.
C10_FailedLoadIsSoft ==
    FailedLoad =>
        /\ reading.warned
        /\ reading.outcome.ok
        /\ "value" \notin DOMAIN argo_step.parameters[reading.name]

\* what does hold of such a read: the warning, the unset value, and the
\* AttributeError the caller gets
FailedLoadRaises ==
    FailedLoad =>
        /\ reading.warned
        /\ reading.outcome = Err("AttributeError")
        /\ "value" \notin DOMAIN argo_step.parameters[reading.name]

(***************************************************************************)
(* Properties of the output artifacts of a step                            *)
(***************************************************************************)
\* the call made last was upload_and_modify_sliced_output_artifact, and it
\* came to upload a list
Uploading == artifact_call.done /\ artifact_call.op = "upload" /\ artifact_call.built

DeclaredOrders == [i \in DOMAIN artifact_call.declared |-> Order(artifact_call.declared[i])]

DistinctOrders ==
    \A i, j \in DOMAIN DeclaredOrders : DeclaredOrders[i] = DeclaredOrders[j] => i = j

\* the i-th smallest of the declared orders
Smallest(i) ==
    CHOOSE o \in Range(DeclaredOrders) :
        Cardinality({x \in Range(DeclaredOrders) : x < o}) = i - 1

\* C11: with distinct declared orders and one path per declared slice, the
\* uploaded list has length max(order)+1, the i-th supplied path sits at the
\* index that is the i-th smallest declared order, and every index that is no
\* declared order holds None.
C11_SliceReconstruction ==
    Uploading /\ DistinctOrders =>
        /\ Len(uploaded) = Smallest(Len(DeclaredOrders)) + 1
        /\ \A i \in DOMAIN artifact_call.paths :
              uploaded[Smallest(i) + 1] = artifact_call.paths[i]
        /\ \A k \in DOMAIN uploaded :
              (k - 1) \notin Range(DeclaredOrders) => uploaded[k] = NoneVal

\* declared orders [2, 0, 1]: the three paths land first, second and third
C11_Witness ==
    /\ Uploading
    /\ DeclaredOrders = <<2, 0, 1>>
    /\ uploaded = artifact_call.paths
    /\ Len(uploaded) = 3

\* a declared list with a hole: orders 2 and 0
SliceHoleWitness ==
    /\ Uploading
    /\ DeclaredOrders = <<2, 0>>
    /\ uploaded = <<artifact_call.paths[1], NoneVal, artifact_call.paths[2]>>

\* the call made last rewrote the reference of an artifact outside debug mode
RewroteReference ==
    /\ artifact_call.done
    /\ ~artifact_call.raised
    /\ mode # "debug"
    /\ artifact_call.op = "upload" => artifact_call.built

\* C18: outside debug mode, after modify_output_artifact(name, s3) the
\* artifact has no archive field if the key ends with .tgz and the explicit
\* none strategy otherwise, whatever archive field it had before.
C18_ArchiveFromKey ==
    RewroteReference =>
        LET art == argo_step.artifacts[artifact_call.name]
        IN IF EndsWithTgz(artifact_call.s3.key)
           THEN "archive" \notin DOMAIN art
           ELSE "archive" \in DOMAIN art /\ art["archive"] = ArchiveNone

\* what holds whatever the archive field was: a .tgz key clears it, and
\* another key states the none strategy where no strategy was stated
ArchiveWhereUnstated ==
    RewroteReference =>
        LET art == argo_step.artifacts[artifact_call.name]
            old == artifact_call.before.artifacts[artifact_call.name]
        IN IF EndsWithTgz(artifact_call.s3.key)
           THEN "archive" \notin DOMAIN art
           ELSE /\ "archive" \in DOMAIN art
                /\ art["archive"] = IF "archive" \in DOMAIN old THEN old["archive"]
                                    ELSE ArchiveNone

(***************************************************************************)
(* Properties of the pod names                                             *)
(***************************************************************************)
\* the decimal digits of the FNV-1a hash of some byte strings (reference
\* values of the algorithm): "", "a", "foobar", and e acute in UTF-8
ReferenceHash(node_name) ==
    CASE node_name = <<>> -> <<2, 1, 6, 6, 1, 3, 6, 2, 6, 1>>
      [] node_name = <<97>> -> <<3, 8, 2, 6, 0, 0, 2, 2, 2, 0>>
      [] node_name = <<102, 111, 111, 98, 97, 114>> -> <<3, 2, 1, 4, 7, 3, 5, 7, 2, 0>>
      [] node_name = <<195, 169>> -> <<5, 1, 3, 6, 6, 5, 2, 1, 7>>
      [] node_name = <<119>> -> <<4, 0, 6, 0, 8, 8, 8, 8, 8, 6>>

AsCharacters(digits) == [i \in DOMAIN digits |-> 48 + digits[i]]

\* "<wf_name>-<template_name>", cut after 242 characters
ExpectedPrefix ==
    LET prefix == pod_args.wf_name \o <<45>> \o pod_args.template_name
    IN SubSeq(prefix, 1, IF Len(prefix) < 242 THEN Len(prefix) ELSE 242)

\* C12: get_pod_name returns wf_name when wf_name = node_name; otherwise the
\* prefix cut to at most 242 characters, a dash and the FNV-1a hash of the
\* node name in decimal, at most 253 characters in all; and a repeated call
\* returns the same.
C12_PodName ==
    /\ pod_name.done =>
          IF pod_args.wf_name = pod_args.node_name
          THEN pod_name.name = pod_args.wf_name
          ELSE /\ pod_name.name = ExpectedPrefix \o <<45>>
                                  \o AsCharacters(ReferenceHash(pod_args.node_name))
               /\ Len(pod_name.name) <= 253
    /\ pod_name.done /\ pod_name_before.done => pod_name.name = pod_name_before.name

\* a prefix longer than 242 characters was cut, and the name is 253 long
C12_Witness ==
    /\ pod_name.done
    /\ pod_name_before.done
    /\ pod_args.wf_name # pod_args.node_name
    /\ Len(pod_args.wf_name) > 242
    /\ Len(pod_name.name) = 253

\* the root node: the workflow's own name
RootNameWitness ==
    /\ pod_name.done
    /\ pod_args.wf_name = pod_args.node_name
    /\ pod_name.name = <<119>>

(***************************************************************************)
(* Properties of get_step                                                  *)
(***************************************************************************)
Returned == IF get_step_call.done THEN Range(get_step_call.steps) ELSE {}

HasStartTime(n) == "startedAt" \in n.has /\ n.startedAt # NoTime

\* C13: get_step skips every node whose startedAt is None and every node that
\* has no startedAt at all: the call raises nothing and returns no such node,
\* whatever the filters.
C13_NoStartTimeSkipped ==
    get_step_call.done =>
        /\ get_step_call.raised = "none"
        /\ \A i \in Returned : HasStartTime(workflow.nodes[i])

\* the part that the code keeps: where every node has the key, a node whose
\* startedAt is None is never returned
NoneStartSkipped ==
    get_step_call.done /\ get_step_call.raised = "none" =>
        \A i \in Returned : HasStartTime(workflow.nodes[i])

\* a call that left out a node whose startedAt is None and returned another
NoneStartWitness ==
    /\ get_step_call.done
    /\ get_step_call.raised = "none"
    /\ Returned # {}
    /\ \E i \in DOMAIN workflow.nodes :
           "startedAt" \in workflow.nodes[i].has
               /\ workflow.nodes[i].startedAt = NoTime

(***************************************************************************)
(* Properties of resolve and of the completion handler                     *)
(***************************************************************************)
\* resolve has returned: the run is between two completions
Resolved == pc = "loop"

\* C14: when resolve returns, no task left in waiting has all of its
\* dependencies in finished; every task in running is out of waiting, has
\* phase Pending and has its future recorded under its index in the DAG.
C14_ResolveAdmitsEveryReady ==
    Resolved =>
        /\ \A t \in Range(waiting) : ~Ready(t, finished)
        /\ \A t \in Range(running) :
              /\ ~Contains(waiting, t)
              /\ phase[t] = "Pending"
              /\ Contains(futures, IndexOf(tasks, t))

\* what holds of every resolve: the tasks it admitted are Pending, out of
\* waiting, and their futures are recorded under their indexes
AdmittedAreRecorded ==
    Resolved =>
        \A t \in Range(running) :
            /\ ~Contains(waiting, t)
            /\ phase[t] = "Pending"
            /\ Contains(futures, IndexOf(tasks, t))

\* the step handles a completion: the future of task j has been popped
Handled == last' # last

\* the outputs of no task but j change, and j's only to what its worker returned
OutputsFrame ==
    \A t \in DagTasks :
        outputs'[t] # outputs[t] =>
            /\ Handled
            /\ last' = <<IndexOf(tasks, t), "returned">>
            /\ outputs'[t] = WorkerOutputs(t)

\* a completion that returned sets the outputs, one that failed leaves them
CopyBack ==
    Handled =>
        IF last'[2] = "returned"
        THEN outputs'[tasks[last'[1]]] = WorkerOutputs(tasks[last'[1]])
        ELSE outputs' = outputs

\* C15: the outputs of task j change only in the step that handles j's own
\* successful completion, and then become the outputs its worker returned; a
\* failed completion leaves the outputs unchanged; the step that handles the
\* completion of j changes neither outputs nor phase of any other task.
C15_CompletionFrame ==
    [][/\ OutputsFrame
       /\ CopyBack
       /\ Handled => \A t \in DagTasks \ {tasks[last'[1]]} :
                         outputs'[t] = outputs[t] /\ phase'[t] = phase[t]]_vars

\* C15, amended: the same, except that the step that handles the completion of
\* j gives phase Pending to the waiting tasks its resolve admits; it changes
\* the phase of no other task.
C15_CompletionFrameAmended ==
    [][/\ OutputsFrame
       /\ CopyBack
       /\ Handled => \A t \in DagTasks \ {tasks[last'[1]]} :
                         /\ outputs'[t] = outputs[t]
                         /\ phase'[t] # phase[t] =>
                               /\ phase[t] = "Waiting"
                               /\ phase'[t] = "Pending"
                               /\ Contains(waiting, t)
                               /\ Contains(running', t)]_vars

\* the completion of a tolerant task that failed was handled after another
\* task's outputs had been copied back, and its resolve admitted a task
C15_Witness ==
    /\ last[2] = "exception"
    /\ pc = "loop"
    /\ \E t \in Range(finished) : outputs[t] = WorkerOutputs(t)
    /\ \E t \in Range(running) : tasks[last[1]] \in dependencies[t]

(***************************************************************************)
(* Properties of DAG.add and DAG.copy                                      *)
(***************************************************************************)
\* [prepare_step if present, the task, check_step if present]
Triple(t) ==
    (IF task_objs[t].prepare_step # 0 THEN <<task_objs[t].prepare_step>> ELSE <<>>)
        \o <<t>> \o
    (IF task_objs[t].check_step # 0 THEN <<task_objs[t].check_step>> ELSE <<>>)

RECURSIVE Concatenation(_)
Concatenation(added) ==
    IF added = <<>> THEN <<>>
    ELSE Concatenation(SubSeq(added, 1, Len(added) - 1)) \o Triple(added[Len(added)])

IsPrefix(s, l) == Len(s) <= Len(l) /\ SubSeq(l, 1, Len(s)) = s

AddedInOrder ==
    \A d \in DOMAIN dag_objs : dag_objs[d].tasks = Concatenation(dag_objs[d].added)

\* C16: after any sequence of add calls (one task, a list, the constructor's
\* tasks) DAG.tasks is the concatenation, in call order, of [prepare_step if
\* present, the task, check_step if present] of each added task, and add
\* keeps the entries the DAG already has, in their order.
C16_AddAppendsTriples ==
    /\ AddedInOrder
    /\ [][/\ AddedInOrder'
          /\ \A d \in DOMAIN dag_objs :
                IsPrefix(dag_objs[d].tasks, dag_objs'[d].tasks)]_vars

\* a task with both satellite steps was added after another task
C16_Witness ==
    \E d \in DOMAIN dag_objs :
        LET added == dag_objs[d].added
        IN /\ Len(added) >= 2
           /\ dag_objs[d].origin.of = 0
           /\ task_objs[added[2]].prepare_step # 0
           /\ task_objs[added[2]].check_step # 0
           /\ Len(dag_objs[d].tasks) >= 4

\* the copies: distinct DAGs, named after the original, of separate tasks
\* that share the originals' templates
CopyIsLinked ==
    \A c \in DOMAIN dag_objs :
        LET o == dag_objs[c].origin.of
        IN o # 0 =>
            /\ c # o
            /\ \E suffix \in Suffixes :
                   dag_objs[c].name = dag_objs[o].name \o <<"-">> \o suffix
            /\ Len(dag_objs[c].tasks) >= dag_objs[c].origin.len
            /\ \A i \in 1..dag_objs[c].origin.len :
                   /\ dag_objs[c].tasks[i] # dag_objs[o].tasks[i]
                   /\ dag_objs[c].tasks[i] \notin Range(dag_objs[o].tasks)
                   /\ task_objs[dag_objs[c].tasks[i]].template
                          = task_objs[dag_objs[o].tasks[i]].template

\* a step leaves what it is not about alone: a copy leaves every DAG and every
\* task there is, an add every other DAG and every task
CopyFrame ==
    /\ \A o \in DOMAIN task_objs : task_objs'[o] = task_objs[o]
    /\ \A d \in DOMAIN dag_objs :
           \/ dag_objs'[d] = dag_objs[d]
           \/ /\ Len(dag_objs') = Len(dag_objs)
              /\ dag_objs'[d].name = dag_objs[d].name
              /\ \A e \in DOMAIN dag_objs \ {d} : dag_objs'[e] = dag_objs[e]

\* C17: copy returns a distinct DAG named <original name>-<suffix> whose i-th
\* task is another object than the original's i-th task with the identical
\* template; copy leaves the original's name, task list and tasks unchanged,
\* and a later add on either DAG leaves the other's task list unchanged.
C17_CopySharesTemplates == []CopyIsLinked /\ [][CopyFrame]_vars

\* a DAG of a task with satellite steps was copied, and then both the
\* original and the copy were added to
C17_Witness ==
    \E c \in DOMAIN dag_objs :
        LET o == dag_objs[c].origin.of
        IN /\ o # 0
           /\ dag_objs[c].origin.len >= 2
           /\ Len(dag_objs[c].tasks) > dag_objs[c].origin.len
           /\ Len(dag_objs[o].tasks) > dag_objs[c].origin.len

(***************************************************************************)
(* Properties of the pod's script and of replay                            *)
(***************************************************************************)
\* the template descriptor the text decodes to has the script as its source
HasSource(templ, script) ==
    /\ templ.ok
    /\ HasKey(templ.val, ScriptKey)
    /\ HasKey(Lookup(templ.val, ScriptKey), SourceKey)
    /\ Lookup(Lookup(templ.val, ScriptKey), SourceKey) = Str(script)

\* C19: after set_script(s), and after any further calls that set no other
\* script, ARGO_TEMPLATE of init, wait and main are the same text, the text
\* decodes to a template descriptor whose script.source is s, and get_script
\* returns s.
C19_ScriptRoundTrip ==
    script_set.set =>
        /\ pod.env["init"] = pod.env["main"]
        /\ pod.env["wait"] = pod.env["main"]
        /\ HasSource(json_loads(pod.env["main"]), script_set.script)
        /\ (pod_call.op = "get_script" /\ pod_call.raised = "none") =>
               pod_call.returned = script_set.script

\* get_script returned a script with a quote, a backslash and a newline, set
\* on a pod whose script was another one
C19_Witness ==
    /\ script_set.set
    /\ pod_call.op = "get_script"
    /\ pod_call.raised = "none"
    /\ Contains(pod_call.returned, Quote)
    /\ Contains(pod_call.returned, Newline)
    /\ ~HasSource(json_loads(cluster.env["main"]), script_set.script)

Replayed == pod_call.op = "replay"

Calls(verb) == {i \in DOMAIN api_calls : api_calls[i].verb = verb}

\* DELETE once, then POST once; a failed DELETE is logged and not raised, a
\* failed POST is raised
DeleteThenPost ==
    /\ Cardinality(Calls("DELETE")) = 1
    /\ Cardinality(Calls("POST")) = 1
    /\ \A i \in Calls("DELETE"), j \in Calls("POST") :
           /\ i < j
           /\ pod_call.logged = ~api_calls[i].ok
           /\ pod_call.raised = IF api_calls[j].ok THEN "none" ELSE "ApiException"

NamedLike(n, name) ==
    \/ n = name
    \/ /\ Len(n) > Len(name)
       /\ \A k \in 1..Len(name) : n[k] = name[k]
       /\ n[Len(name) + 1] = "("

\* the node is started and passes every filter that was given
Wanted(n, args) ==
    /\ HasStartTime(n)
    /\ args.name.given => \E name \in args.name.list : NamedLike(n.displayName, name)
    /\ args.key.given => "inputs" \in n.has /\ <<n.dflow_key>> \in args.key.list
    /\ args.phase.given => "phase" \in n.has /\ n.phase \in args.phase.list
    /\ args.type.given => "type" \in n.has /\ n.type \in args.type.list
    /\ args.id.given => n.id \in args.id.list

\* every node of the workflow has an entry startedAt, None or a time
AllStamped == \A i \in DOMAIN workflow.nodes : "startedAt" \in workflow.nodes[i].has

AllFiltersWitness ==
    /\ get_step_call.done
    /\ AllStamped
    /\ \A f \in DOMAIN get_step_call.args : get_step_call.args[f].given
    /\ Len(get_step_call.steps) = 1
    /\ \E i \in DOMAIN workflow.nodes : HasStartTime(workflow.nodes[i]) /\ i \notin Returned

\* what the wrapper with this id keeps: the items of its dict or list
Items(id) ==
    IF heap[id].data.t \in {"dict", "list"}
    THEN {heap[id].data.v[k] : k \in DOMAIN heap[id].data.v}
    ELSE {}

\* C22: after any sequence of attribute assignments, the assignment of a
\* plain mapping or sequence included, every mapping or sequence that a node
\* of the tree holds as an item is a wrapper object, never a plain dict or
\* list.
C22_EveryContainerWrapped ==
    \A id \in DOMAIN heap : \A item \in Items(id) : item.t \notin {"dict", "list"}

\* the same for a tree that was only constructed, or assigned ints only
ParsedTreeIsWrapped ==
    (\A i \in DOMAIN written : written[i].value.t = "int")
        => \A id \in DOMAIN heap : \A item \in Items(id) : item.t # "dict" /\ item.t # "list"

\* root.a = {"a": 1} was assigned, and root.a.a then raises AttributeError
PlainMappingStored ==
    /\ Len(written) = 1
    /\ written[1] = [path |-> <<>>, key |-> "a",
                     value |-> PlainDict([a |-> IntVal(1)]), ok |-> TRUE]
    /\ ~ReadFrom(heap, Ref(root), <<AttrStep("a"), AttrStep("a")>>).ok

\* run has not raised: it is before its first resolve, in its loop between
\* two completions, or past the loop
NotRaised == pc \in {"new", "loop", "done", "cyclic"}

\* how far the task has come: 0 waiting, 1 running, 2 finished
Place(task) ==
    IF Contains(finished, task) THEN 2 ELSE IF Contains(running, task) THEN 1 ELSE 0

\* the tasks whose future is pending, one entry for each future
Pending == [k \in DOMAIN futures |-> tasks[futures[k]]]

\* the three lists hold every task of the DAG, each in one place and once
Partitioned ==
    /\ Range(waiting) \cup Range(running) \cup Range(finished) = DagTasks
    /\ Len(waiting) + Len(running) + Len(finished) = Cardinality(DagTasks)

\* the pending futures are those of the running tasks, one for each
FuturesOfRunning ==
    /\ Len(futures) = Len(running)
    /\ Range(Pending) = Range(running)
    /\ Cardinality(Range(running)) = Len(running)

\* a step moves a task by at most one place forward, and a future is made
\* only for a task that was waiting and is running after the step
MovesForward ==
    \A task \in DagTasks :
        /\ Place(task)' \in {Place(task), Place(task) + 1}
        /\ (\E k \in DOMAIN futures' : tasks[futures'[k]] = task)
               /\ ~(\E k \in DOMAIN futures : tasks[futures[k]] = task)
           => Place(task) = 0 /\ Place(task)' = 1

WellFormed ==
    /\ ~HasCycle
    /\ \A task \in DagTasks : dependencies[task] \subseteq DagTasks

\* the loop has ended, or is between completions with nothing running, while
\* a task whose dependencies are all finished is still in waiting
Stuck ==
    /\ pc \in {"loop", "done", "cyclic"}
    /\ Len(running) = 0
    /\ \E i \in DOMAIN waiting : dependencies[waiting[i]] \subseteq Range(finished)

\* run has returned, every task having been dispatched and finished
ReturnedAll == pc = "done" /\ DagTasks \subseteq Range(finished)

\* C24: run never stops with a ready task in waiting while running is empty;
\* and for a DAG with acyclic dependencies that are all tasks of the DAG,
\* when every dispatched worker completes and no failure of a non-tolerant
\* task makes run raise, every task is eventually dispatched and run returns,
\* whatever the order of the completions.
C24_Termination ==
    /\ []~Stuck
    /\ (WellFormed /\ [](pc # "raised")) => <>ReturnedAll

\* run has returned on a chain of three tasks, the last of which failed
C24_Witness ==
    /\ pc = "done"
    /\ WellFormed
    /\ Len(tasks) = 3
    /\ \E a, b, c \in DagTasks :
           /\ dependencies[a] = {}
           /\ dependencies[b] = {a}
           /\ dependencies[c] = {b}
    /\ last[2] = "exception"

\* run has returned with a task never dispatched: the dependencies are cyclic
\* or name a task outside the DAG
CyclicWitness == pc = "cyclic" /\ ~WellFormed /\ Len(waiting) > 0

====
